---------------------------- MODULE Spec2Model ----------------------------
(***************************************************************************)
(* State-machine model of the hardware temperature monitor:                *)
(*   core/alert_system.py   AlertSystem   (threshold check, cooldown gate) *)
(*   core/config_manager.py ConfigManager (thresholds, cooldown, seeding)  *)
(*   core/monitor.py        HardwareMonitor (polling thread life cycle)    *)
(*                                                                         *)
(* Temperatures are whole degrees Celsius, time is whole seconds of        *)
(* time.time().  An Optional[float] is a sequence of length 0 or 1.        *)
(***************************************************************************)
EXTENDS Integers, Sequences, FiniteSets, TLC

VARIABLES
    alert_states,          \* AlertSystem.alert_states: device -> {active, last_triggered}
    cooldown_period,       \* AlertSystem.cooldown_period (cached at construction / update_config)
    custom_alert_actions,  \* AlertSystem.custom_alert_actions: partial map device -> callback
    config,                \* ConfigManager.config: partial map <<section, option>> -> value
    now,                   \* the value time.time() returns
    sensors,               \* the devices this machine has a temperature sensor for
    call,                  \* the most recent step: operation, arguments, outcome
    hist,                  \* per device: history of the calls made so far
    is_running,            \* HardwareMonitor.is_running
    monitor_thread,        \* HardwareMonitor.monitor_thread: None or the thread last spawned
    threads,               \* the polling threads spawned so far, each with its position
    caller,                \* the thread that calls start/stop: "idle" or "joining"
    last_temperatures,     \* HardwareMonitor.last_temperatures
    current_temperatures,  \* HardwareMonitor.current_temperatures
    last_alert_time,       \* HardwareMonitor.last_alert_time: partial map key -> time
    callbacks,             \* HardwareMonitor.ui_update_callback, alert_callback, log_callback
    accepted_temperatures, \* the snapshot of the most recent cycle that validation accepted
    update_interval,       \* HardwareMonitor.update_interval (seconds)
    alert_history,         \* MonitorApp.alert_history
    race,                  \* unsynchronised accesses to alert_states in progress: the
                           \* check_thresholds call between its two writes, and what a
                           \* reader thread has read so far
    sink_trace,            \* per polling thread: the sinks its current cycle has
                           \* invoked so far, each with the snapshot it was given
    sent_alerts            \* NotificationManager.sent_alerts: the texts delivered
                           \* since the last reset_alerts()

alertVars == <<alert_states, cooldown_period, custom_alert_actions, config, hist>>
monitorVars == <<is_running, monitor_thread, threads, caller, last_temperatures,
                 current_temperatures, last_alert_time, callbacks,
                 accepted_temperatures>>
appVars == <<update_interval, alert_history, race, sink_trace, sent_alerts>>
vars == <<alertVars, monitorVars, appVars, now, sensors, call>>

----------------------------------------------------------------------------
\* Bounds of the model
MaxTicks == 2
TickSeconds == 150
MaxActions == 1
MaxSensors == 2
MaxThreads == 2

\* Optional values
None == <<>>
Some(x) == <<x>>

\* Iteration order of the snapshot dict built by HardwareReader.get_all_temperatures
DeviceOrder == <<"CPU", "GPU", "SSD">>
Devices == {DeviceOrder[i] : i \in 1..Len(DeviceOrder)}

\* A device name the engine holds no AlertState for
UnknownDevice == "FAN"

\* Readings a sensor may report: 70 is at most every default threshold (and
\* exactly the default SSD threshold), 95 is above every default threshold
TempValues == {70, 95}

\* The machines: a device without a sensor always reads None
SensorSets == {S \in SUBSET Devices : Cardinality(S) = MaxSensors}
Snapshots(S) ==
    {t \in [Devices -> {None} \cup {Some(v) : v \in TempValues}] :
        \A d \in Devices \ S : t[d] = None}

\* Callbacks a caller may register; Raises(cb) is whether calling it raises
Callbacks == {"beep", "fail"}
Raises(cb) == cb = "fail"

\* The custom alert actions an application registers: none, or a raising one
ActionChoices(S) == {<<>>, [d \in S |-> "fail"]}

\* Cooldown values a configuration may hold (seconds)
CooldownChoices == {150, 300}

----------------------------------------------------------------------------
\* ConfigManager

ThresholdKey(device) == <<"Thresholds", device>>
CooldownKey == <<"General", "alert_cooldown">>
LogKey == <<"General", "log_temperatures">>
IntervalKey == <<"General", "update_interval">>

\* self.defaults: 85.0, 90.0, 70.0, 300, True, 5.0
Defaults ==
    (ThresholdKey("CPU") :> 85) @@ (ThresholdKey("GPU") :> 90) @@
    (ThresholdKey("SSD") :> 70) @@ (CooldownKey :> 300) @@ (LogKey :> TRUE) @@
    (IntervalKey :> 5)

\* The store holds text.  Str(x) is the text str(x) of a value of the
\* option's type, which getfloat / getint / getboolean parse back;
\* Malformed is a text they raise ValueError on.
Str(x) == <<x>>
Malformed == <<>>
Parses(text) == text # Malformed
Parse(text) == text[1]

\* The file _create_default_config writes: read_dict(self.defaults)
DefaultConfig == [k \in DOMAIN Defaults |-> Str(Defaults[k])]

\* config.set(section, option, text)
ConfigSet(cfg, key, text) ==
    [k \in DOMAIN cfg \cup {key} |-> IF k = key THEN text ELSE cfg[k]]

\* has the store a value for key that parses?
Readable(cfg, key) == key \in DOMAIN cfg /\ Parses(cfg[key])

set_threshold(cfg, device, value) == ConfigSet(cfg, ThresholdKey(device), Str(value))
set_alert_cooldown(cfg, value) == ConfigSet(cfg, CooldownKey, Str(value))
set_log_temperatures(cfg, value) == ConfigSet(cfg, LogKey, Str(value))
set_update_interval(cfg, value) == ConfigSet(cfg, IntervalKey, Str(value))

\* get_threshold that never looks into the store
get_threshold_ignores_store(cfg, device) ==
    [value |-> Defaults[ThresholdKey(device)], config |-> cfg]

\* A getter that returns the default without storing it
get_threshold_no_seed(cfg, device) ==
    IF Readable(cfg, ThresholdKey(device))
    THEN [value |-> Parse(cfg[ThresholdKey(device)]), config |-> cfg]
    ELSE [value |-> Defaults[ThresholdKey(device)], config |-> cfg]

\* get_threshold: the stored value, or the default (seeded into the store)
get_threshold(cfg, device) ==
    IF Readable(cfg, ThresholdKey(device))
    THEN [value |-> Parse(cfg[ThresholdKey(device)]), config |-> cfg]
    ELSE [value |-> Defaults[ThresholdKey(device)],
          config |-> set_threshold(cfg, device, Defaults[ThresholdKey(device)])]

\* get_alert_cooldown: the stored value, or the default (seeded into the store)
get_alert_cooldown(cfg) ==
    IF Readable(cfg, CooldownKey)
    THEN [value |-> Parse(cfg[CooldownKey]), config |-> cfg]
    ELSE [value |-> Defaults[CooldownKey],
          config |-> set_alert_cooldown(cfg, Defaults[CooldownKey])]

\* get_log_temperatures: the stored value, or the default (seeded into the store)
get_log_temperatures(cfg) ==
    IF Readable(cfg, LogKey)
    THEN [value |-> Parse(cfg[LogKey]), config |-> cfg]
    ELSE [value |-> Defaults[LogKey],
          config |-> set_log_temperatures(cfg, Defaults[LogKey])]

\* get_update_interval: the stored value, or the default (seeded into the store)
get_update_interval(cfg) ==
    IF Readable(cfg, IntervalKey)
    THEN [value |-> Parse(cfg[IntervalKey]), config |-> cfg]
    ELSE [value |-> Defaults[IntervalKey],
          config |-> set_update_interval(cfg, Defaults[IntervalKey])]

----------------------------------------------------------------------------
\* AlertSystem

InitialAlertStates == [d \in Devices |-> [active |-> FALSE, last_triggered |-> 0]]

BreachMsg(device, temp, threshold) ==
    [device |-> device, kind |-> "breach", temp |-> temp, threshold |-> Some(threshold)]
RecoveryMsg(device, temp) ==
    [device |-> device, kind |-> "recovery", temp |-> temp, threshold |-> None]

\* A plausible slip: the comparison of the gate inverted
InCooldown_inverted(current_time, last_triggered, cooldown) ==
    current_time - last_triggered > cooldown

\* A plausible slip: the gate still closed at the very end of the window
InCooldown_inclusive(current_time, last_triggered, cooldown) ==
    current_time - last_triggered <= cooldown

\* Line 56: the reading is inside the cooldown window of the last trigger
InCooldown(current_time, last_triggered, cooldown) ==
    current_time - last_triggered < cooldown

\* A plausible slip: a reading without a value counts as a recovery
OnNone_recovers(r, device) ==
    IF r.states[device].active
    THEN [r EXCEPT !.states[device].active = FALSE]
    ELSE r

\* Lines 47-48: a reading of None is skipped
OnNone(r, device) == r

\* A plausible slip: the state is updated before the gate is consulted
OnSuppressed_marks_active(r, device) ==
    [r EXCEPT !.states[device].active = TRUE]

\* Lines 56-58: inside the cooldown window the reading is skipped
OnSuppressed(r, device) == r

\* A breach that records the time and not the flag
OnBreach_keeps_flag(r, device, t, threshold, current_time, actions) ==
    [r EXCEPT
       !.states[device].last_triggered = current_time,
       !.alerts = Append(@, BreachMsg(device, t, threshold)),
       !.invoked = IF device \in DOMAIN actions
                   THEN Append(@, <<device, actions[device]>>) ELSE @,
       !.raised = device \in DOMAIN actions /\ Raises(actions[device])]

\* Lines 60-71: the state update, the breach message, then the registered
\* action, which is called without a try/except: an exception of the action
\* leaves check_thresholds at once
OnBreach(r, device, t, threshold, current_time, actions) ==
    [r EXCEPT
       !.states[device] = [active |-> TRUE, last_triggered |-> current_time],
       !.alerts = Append(@, BreachMsg(device, t, threshold)),
       !.invoked = IF device \in DOMAIN actions
                   THEN Append(@, <<device, actions[device]>>) ELSE @,
       !.raised = device \in DOMAIN actions /\ Raises(actions[device])]

\* A plausible slip: the recovery message without the test of the active flag
OnNormal_always_reports(r, device, t) ==
    [r EXCEPT
       !.states[device].active = FALSE,
       !.alerts = Append(@, RecoveryMsg(device, t))]

\* A plausible slip: a recovery also forgets the time of the last trigger
OnNormal_forgets_trigger(r, device, t) ==
    IF r.states[device].active
    THEN [r EXCEPT
            !.states[device] = [active |-> FALSE, last_triggered |-> 0],
            !.alerts = Append(@, RecoveryMsg(device, t))]
    ELSE r

\* Lines 72-78: a reading at or below the threshold ends an active alert
OnNormal(r, device, t) ==
    IF r.states[device].active
    THEN [r EXCEPT
            !.states[device].active = FALSE,
            !.alerts = Append(@, RecoveryMsg(device, t))]
    ELSE r

\* get_threshold for a device that has neither a stored threshold nor a
\* default: self.defaults['Thresholds'][device] (config_manager.py line 95)
\* raises KeyError, which the except clause of line 94 does not name
get_threshold_raises(cfg, device) ==
    /\ ~Readable(cfg, ThresholdKey(device))
    /\ ThresholdKey(device) \notin DOMAIN Defaults

\* A KeyError leaves check_thresholds: from get_threshold (line 50), or from
\* self.alert_states[device] (lines 55 and 74) for a device the engine has no
\* AlertState for
OnKeyError(r) == [r EXCEPT !.raised = TRUE]

\* A gate that asks the configuration for the cooldown at every call
gate_cooldown_fresh(cached, cfg) == get_alert_cooldown(cfg).value

\* Line 56: the gate uses self.cooldown_period, not the configuration
gate_cooldown(cached, cfg) == cached

\* One iteration of the for loop of check_thresholds (lines 46-78) on the
\* running result r = [states, alerts, invoked, raised, config]
CheckDevice(r, device, temp, current_time, cooldown, actions) ==
    IF temp = None THEN OnNone(r, device)
    ELSE IF get_threshold_raises(r.config, device) THEN OnKeyError(r)
    ELSE
      LET th == get_threshold(r.config, device)
          r1 == [r EXCEPT !.config = th.config]
      IN IF device \notin DOMAIN r1.states THEN OnKeyError(r1)
         ELSE IF temp[1] > th.value
         THEN IF InCooldown(current_time, r1.states[device].last_triggered,
                            gate_cooldown(cooldown, r1.config))
              THEN OnSuppressed(r1, device)
              ELSE OnBreach(r1, device, temp[1], th.value, current_time, actions)
         ELSE OnNormal(r1, device, temp[1])

\* The for loop over temperatures.items(), left at the first exception
RECURSIVE CheckLoop(_, _, _, _, _, _, _)
CheckLoop(r, i, items, temperatures, current_time, cooldown, actions) ==
    IF i > Len(items) \/ r.raised THEN r
    ELSE CheckLoop(
           CheckDevice(r, items[i], temperatures[items[i]],
                       current_time, cooldown, actions),
           i + 1, items, temperatures, current_time, cooldown, actions)

\* A loop over the engine's own devices instead of the snapshot's items
check_thresholds_items_own_order(items, states, cfg, temperatures, current_time, cooldown, actions) ==
    CheckLoop([states |-> states, alerts |-> <<>>, invoked |-> <<>>,
               raised |-> FALSE, config |-> cfg],
              1, DeviceOrder, temperatures, current_time, cooldown, actions)

\* check_thresholds(temperatures) run on the given engine state: the alert
\* states and the configuration it leaves, the list alerts it built, the
\* actions it invoked, and whether an exception ended it (the list is then
\* not returned)
check_thresholds_items(items, states, cfg, temperatures, current_time, cooldown, actions) ==
    CheckLoop([states |-> states, alerts |-> <<>>, invoked |-> <<>>,
               raised |-> FALSE, config |-> cfg],
              1, items, temperatures, current_time, cooldown, actions)

\* check_thresholds on a snapshot as HardwareReader.get_all_temperatures
\* builds it: the keys CPU, GPU, SSD in that order
check_thresholds(states, cfg, temperatures, current_time, cooldown, actions) ==
    check_thresholds_items(DeviceOrder, states, cfg, temperatures, current_time,
                           cooldown, actions)

\* A plausible slip: the reset also clears the time of the last trigger
reset_alert_rearms(states, device) ==
    IF device \in DOMAIN states
    THEN [states |-> [states EXCEPT ![device] = [active |-> FALSE, last_triggered |-> 0]],
          raised |-> FALSE]
    ELSE [states |-> states, raised |-> FALSE]

\* A plausible slip: the reset clears the flag of every device
reset_alert_all(states, device) ==
    [states |-> [d \in DOMAIN states |-> [states[d] EXCEPT !.active = FALSE]],
     raised |-> FALSE]

\* reset_alert(device), lines 106-107: the alert states it leaves, and
\* whether it raised
reset_alert(states, device) ==
    IF device \in DOMAIN states
    THEN [states |-> [states EXCEPT ![device].active = FALSE], raised |-> FALSE]
    ELSE [states |-> states, raised |-> FALSE]

\* set_custom_alert_action(device, action), line 117
set_custom_alert_action_keeps_first(actions, device, action) ==
    [d \in DOMAIN actions \cup {device} |->
        IF d \in DOMAIN actions THEN actions[d] ELSE action]

set_custom_alert_action(actions, device, action) ==
    [d \in DOMAIN actions \cup {device} |-> IF d = device THEN action ELSE actions[d]]

----------------------------------------------------------------------------
\* History kept per device for the statements below
\*   breachAt   time of the most recent call that produced a breach message
\*   reset      reset_alert(device) was called since that call
InitialHist == [d \in Devices |-> [breachAt |-> None, reset |-> FALSE]]

HasMsg(alerts, device, kind) ==
    \E i \in 1..Len(alerts) : alerts[i].device = device /\ alerts[i].kind = kind

CountMsg(alerts, device) ==
    Cardinality({i \in 1..Len(alerts) : alerts[i].device = device})

\* Position of a device in the iteration order
Pos(device) == CHOOSE i \in 1..Len(DeviceOrder) : DeviceOrder[i] = device

\* The devices whose iteration the loop reached before it ended
Reached(r, temperatures) ==
    IF ~r.raised THEN Devices
    ELSE {d \in Devices : Pos(d) <= Pos(r.alerts[Len(r.alerts)].device)}

\* The reading of the device in the snapshot is present and above the threshold
Above(cfg, temperatures, device) ==
    /\ temperatures[device] # None
    /\ temperatures[device][1] > get_threshold(cfg, device).value

HistAfterCheck(h, r, current_time) ==
    [d \in Devices |->
        IF HasMsg(r.alerts, d, "breach")
        THEN [breachAt |-> Some(current_time), reset |-> FALSE]
        ELSE h[d]]

----------------------------------------------------------------------------
\* HardwareMonitor

\* The three sinks of a cycle and the callables registered for them
Sinks == {"ui", "alert", "log"}
SinkCallbacks == {"ok"}

\* The empty dict: no device has a reading
NoTemperatures == [d \in Devices |-> None]

Abs(x) == IF x < 0 THEN -x ELSE x

\* Line 127: the largest change between two polls that is not an anomaly
MaxJump == 20

\* _validate_temperatures without its loop over the devices
validate_temperatures_no_jump(current, last) ==
    \E d \in Devices : current[d] # None

\* _validate_temperatures without its test for an empty snapshot
validate_temperatures_no_presence(current, last) ==
    \A d \in Devices :
       (current[d] # None /\ last[d] # None)
       => ~(Abs(current[d][1] - last[d][1]) > MaxJump)

\* A plausible slip: a difference of exactly 20 already counts as a jump
validate_temperatures_inclusive(current, last) ==
    /\ \E d \in Devices : current[d] # None
    /\ \A d \in Devices :
          (current[d] # None /\ last[d] # None)
          => ~(Abs(current[d][1] - last[d][1]) >= MaxJump)

\* _validate_temperatures, lines 112-133
validate_temperatures(current, last) ==
    /\ \E d \in Devices : current[d] # None
    /\ \A d \in Devices :
          (current[d] # None /\ last[d] # None)
          => ~(Abs(current[d][1] - last[d][1]) > MaxJump)

\* Line 148: alert.split()[0]; the message has no blank between the device
\* and the text that follows it, so the first word names device and kind
FirstWord(alert) == <<alert.device, alert.kind>>

\* dict.get(key, 0)
GetOrZero(map, key) == IF key \in DOMAIN map THEN map[key] ELSE 0

\* A sink that raises: do the try/except blocks around the sink calls let
\* the exception leave the step?  Here they do.
SinkAborts_propagates(callback) == callback = "fail"

\* Lines 138-141, 162-165, 176-179: the exception of a sink is caught and logged
SinkAborts(callback) == FALSE

\* The for loop of _check_alerts (lines 147-168) on the running result
\* m = [last_alert_time, config, forwarded, raised]
RECURSIVE ForwardAlerts(_, _, _, _, _)
ForwardAlerts(m, alerts, i, current_time, alert_callback) ==
    IF i > Len(alerts) \/ m.raised THEN m
    ELSE
      LET alert == alerts[i]
          device == FirstWord(alert)
          cd == get_alert_cooldown(m.config)
          m1 == [m EXCEPT !.config = cd.config]
      IN IF current_time - GetOrZero(m1.last_alert_time, device) < cd.value
         THEN ForwardAlerts(m1, alerts, i + 1, current_time, alert_callback)
         ELSE ForwardAlerts(
                [m1 EXCEPT
                   !.last_alert_time =
                      [k \in DOMAIN m1.last_alert_time \cup {device} |->
                          IF k = device THEN current_time ELSE m1.last_alert_time[k]],
                   !.forwarded = IF alert_callback # "none"
                                 THEN Append(@, alert) ELSE @,
                   !.raised = alert_callback # "none" /\ SinkAborts(alert_callback)],
                alerts, i + 1, current_time, alert_callback)

\* A rejected cycle that refreshes the reference snapshot
OnRejected_refreshes(last, temperatures) == temperatures

\* Lines 85-87: a rejected cycle sleeps and continues; last_temperatures stays
OnRejected(last, temperatures) == last

\* The body of the while loop up to its sleep (lines 79-99 and 106-107), on
\* m = [alert_states, config, cooldown_period, custom_alert_actions,
\*      last_temperatures, last_alert_time, callbacks]
monitor_cycle(m, temperatures, current_time) ==
    LET rejected ==
          [accepted |-> FALSE, checked |-> FALSE, raised |-> FALSE,
           ui |-> <<>>, produced |-> <<>>, alerts |-> <<>>, forwarded |-> <<>>,
           logged |-> <<>>, alert_states |-> m.alert_states, config |-> m.config,
           last_temperatures |-> OnRejected(m.last_temperatures, temperatures),
           last_alert_time |-> m.last_alert_time]
        callUi == m.callbacks.ui # "none"
        a1 == [rejected EXCEPT !.accepted = TRUE,
                               !.last_temperatures = m.last_temperatures,
                               !.ui = IF callUi THEN <<temperatures>> ELSE <<>>]
        r == check_thresholds(m.alert_states, m.config, temperatures, current_time,
                              m.cooldown_period, m.custom_alert_actions)
        a2 == [a1 EXCEPT !.checked = TRUE, !.alert_states = r.states,
                         !.config = r.config, !.produced = r.alerts]
        f == ForwardAlerts([last_alert_time |-> m.last_alert_time, config |-> r.config,
                            forwarded |-> <<>>, raised |-> FALSE],
                           r.alerts, 1, current_time, m.callbacks.alert)
        a3 == [a2 EXCEPT !.alerts = r.alerts, !.forwarded = f.forwarded,
                         !.last_alert_time = f.last_alert_time, !.config = f.config]
        lg == get_log_temperatures(f.config)
        callLog == lg.value /\ m.callbacks.log # "none"
        a4 == [a3 EXCEPT !.config = lg.config,
                         !.logged = IF callLog THEN <<temperatures>> ELSE <<>>]
    IN IF ~validate_temperatures(temperatures, m.last_temperatures) THEN rejected
       ELSE IF callUi /\ SinkAborts(m.callbacks.ui) THEN [a1 EXCEPT !.raised = TRUE]
       ELSE IF r.raised THEN [a2 EXCEPT !.raised = TRUE]
       ELSE IF f.raised THEN [a3 EXCEPT !.raised = TRUE]
       ELSE IF callLog /\ SinkAborts(m.callbacks.log) THEN [a4 EXCEPT !.raised = TRUE]
       ELSE [a4 EXCEPT !.last_temperatures = temperatures]

\* A loop that does not look at the flag
loop_test_ignores_flag(running) == "cycle"

\* Line 77: while self.is_running
loop_test(running) == IF running THEN "cycle" ELSE "done"

\* The except clause of the loop that ends the polling thread
OnException_exits(position) == "done"

\* Lines 106-108: the exception is logged, the thread sleeps 5 seconds and
\* goes back to the test of the loop
OnException(position) == "sleep"

\* start_monitoring without the test of is_running
start_monitoring_unguarded(m) ==
    [is_running |-> TRUE,
     threads |-> Append(m.threads, "init"),
     monitor_thread |-> Some(Len(m.threads) + 1)]

\* start_monitoring, lines 44-57, on m = [is_running, threads, monitor_thread]
start_monitoring(m) ==
    IF m.is_running THEN m
    ELSE [is_running |-> TRUE,
          threads |-> Append(m.threads, "init"),
          monitor_thread |-> Some(Len(m.threads) + 1)]

\* Thread.is_alive() of the thread monitor_thread refers to
IsAlive(ths, thread) == thread # None /\ ths[thread[1]] # "done"

----------------------------------------------------------------------------
InitAlertSystem ==
    /\ alert_states = InitialAlertStates
    /\ \E cfg \in {DefaultConfig} :
          /\ cooldown_period = get_alert_cooldown(cfg).value
          /\ config = get_alert_cooldown(cfg).config
    /\ custom_alert_actions = <<>>
    /\ hist = InitialHist

\* update_interval as the monitor reads it at construction (monitor.py:40),
\* the empty history of the application, and no access in progress
InitApp ==
    /\ update_interval = [seconds |-> Defaults[IntervalKey], type |-> "float"]
    /\ alert_history = <<>>
    /\ race = [writer |-> None, reader |-> None]
    /\ sink_trace = <<>>
    /\ sent_alerts = {}

InitMonitor ==
    /\ is_running = FALSE
    /\ monitor_thread = None
    /\ threads = <<>>
    /\ caller = "idle"
    /\ last_temperatures = NoTemperatures
    /\ current_temperatures = NoTemperatures
    /\ last_alert_time = <<>>
    /\ callbacks = [ui |-> "none", alert |-> "none", log |-> "none"]
    /\ accepted_temperatures = NoTemperatures
    /\ InitApp

Init ==
    /\ InitAlertSystem
    /\ InitMonitor
    /\ now = 0
    /\ sensors \in SensorSets
    /\ call = [op |-> "__init__"]

\* time passes
Tick ==
    /\ now < MaxTicks * TickSeconds
    /\ now' = now + TickSeconds
    /\ call' = [op |-> "tick"]
    /\ UNCHANGED <<appVars, alertVars, monitorVars, sensors>>

\* a caller runs check_thresholds(temperatures)
CheckThresholds(temperatures) ==
    LET r == check_thresholds(alert_states, config, temperatures, now,
                              cooldown_period, custom_alert_actions)
    IN /\ alert_states' = r.states
       /\ config' = r.config
       /\ call' = [op |-> "check_thresholds", temperatures |-> temperatures,
                   alerts |-> r.alerts, invoked |-> r.invoked, raised |-> r.raised]
       /\ hist' = HistAfterCheck(hist, r, now)
       /\ UNCHANGED <<appVars, cooldown_period, custom_alert_actions, now, sensors, monitorVars>>

\* a caller runs reset_alert(device)
ResetAlert(device) ==
    /\ alert_states' = reset_alert(alert_states, device).states
    /\ call' = [op |-> "reset_alert", device |-> device,
                raised |-> reset_alert(alert_states, device).raised]
    /\ hist' = [d \in Devices |->
                  IF d = device /\ hist[d].breachAt # None
                  THEN [hist[d] EXCEPT !.reset = TRUE] ELSE hist[d]]
    /\ UNCHANGED <<appVars, cooldown_period, custom_alert_actions, config, now, sensors,
                   monitorVars>>

\* a caller runs set_custom_alert_action(device, action)
SetCustomAlertAction(device, action) ==
    /\ \/ device \in DOMAIN custom_alert_actions
       \/ Cardinality(DOMAIN custom_alert_actions) < MaxActions
    /\ custom_alert_actions' = set_custom_alert_action(custom_alert_actions, device, action)
    /\ call' = [op |-> "set_custom_alert_action", device |-> device, action |-> action]
    /\ UNCHANGED <<appVars, alert_states, cooldown_period, config, now, sensors, hist,
                   monitorVars>>

\* the settings are saved: config.set_alert_cooldown(value)
SetAlertCooldown(value) ==
    /\ config' = set_alert_cooldown(config, value)
    /\ call' = [op |-> "set_alert_cooldown", key |-> CooldownKey, value |-> <<value>>]
    /\ UNCHANGED <<appVars, alert_states, cooldown_period, custom_alert_actions, now,
                   sensors, hist, monitorVars>>

\* a caller runs update_config()
UpdateConfig ==
    LET c == get_alert_cooldown(config)
    IN /\ cooldown_period' = c.value
       /\ config' = c.config
       /\ call' = [op |-> "update_config"]
       /\ UNCHANGED <<appVars, alert_states, custom_alert_actions, now, sensors, hist,
                      monitorVars>>

Next ==
    \/ Tick
    \/ \E temperatures \in Snapshots(sensors) : CheckThresholds(temperatures)
    \/ \E device \in Devices \cup {UnknownDevice} : ResetAlert(device)
    \/ \E device \in Devices, action \in Callbacks : SetCustomAlertAction(device, action)
    \/ \E value \in CooldownChoices : SetAlertCooldown(value)
    \/ UpdateConfig

\* AlertSystem driven directly through its methods
Spec == Init /\ [][Next]_vars

----------------------------------------------------------------------------
\* AlertSystem while the settings change

\* Thresholds the settings may hold
ThresholdChoices == {60, 90}

\* the settings are saved: config.set_threshold(device, value)
SetThreshold(device, value) ==
    /\ config' = set_threshold(config, device, value)
    /\ call' = [op |-> "set_threshold", device |-> device,
                key |-> ThresholdKey(device), value |-> <<value>>]
    /\ UNCHANGED <<appVars, alert_states, cooldown_period, custom_alert_actions, now,
                   sensors, hist, monitorVars>>

\* A machine with one sensor
SettingsInit ==
    /\ InitAlertSystem
    /\ InitMonitor
    /\ now = 0
    /\ sensors \in {S \in SUBSET Devices : Cardinality(S) = 1}
    /\ call = [op |-> "__init__"]

SettingsNext ==
    \/ Tick
    \/ \E temperatures \in Snapshots(sensors) : CheckThresholds(temperatures)
    \/ \E device \in sensors, value \in ThresholdChoices : SetThreshold(device, value)
    \/ \E value \in CooldownChoices : SetAlertCooldown(value)
    \/ UpdateConfig

\* AlertSystem with thresholds and cooldown changed between its calls
SettingsSpec == SettingsInit /\ [][SettingsNext]_vars

----------------------------------------------------------------------------
\* ConfigManager on a settings.ini that lacks options or holds text that does
\* not parse, with its getters and setters called in any order, and
\* HardwareMonitor.set_update_interval

\* The settings.ini files load_config may find: the defaults, with the CPU
\* threshold, the update interval and the log flag each stored, missing or
\* not parsable, and the cooldown likewise
OptionalKeys == {ThresholdKey("CPU"), CooldownKey, IntervalKey, LogKey}

StoredConfigs ==
    {[k \in (DOMAIN Defaults) \ missing |->
         IF k \in unparsable THEN Malformed ELSE Str(Defaults[k])] :
       missing \in SUBSET OptionalKeys, unparsable \in SUBSET OptionalKeys}

\* Update intervals a caller may pass, as numbers of either type
IntervalChoices ==
    [seconds : {-1, 0, 1, 2}, type : {"int", "float"}]

\* float(interval): the same number, as a float
Float(x) == [x EXCEPT !.type = "float"]

\* The least update interval (line 199)
MinInterval == 1

\* set_update_interval that stores whatever it is given
HardwareMonitor_set_update_interval_no_clamp(interval) == Float(interval)

\* HardwareMonitor.set_update_interval, lines 197-204: the value of
\* self.update_interval it leaves
HardwareMonitor_set_update_interval(interval) ==
    IF interval.seconds < MinInterval
    THEN [seconds |-> MinInterval, type |-> "float"]
    ELSE Float(interval)

GetThreshold(device) ==
    LET g == get_threshold(config, device)
    IN /\ config' = g.config
       /\ call' = [op |-> "get_threshold", key |-> ThresholdKey(device),
                   result |-> <<g.value>>,
                   seeded |-> ~Readable(config, ThresholdKey(device))]
       /\ UNCHANGED <<appVars, alert_states, cooldown_period, custom_alert_actions, now,
                      sensors, hist, monitorVars>>

GetAlertCooldown ==
    LET g == get_alert_cooldown(config)
    IN /\ config' = g.config
       /\ call' = [op |-> "get_alert_cooldown", key |-> CooldownKey,
                   result |-> <<g.value>>, seeded |-> ~Readable(config, CooldownKey)]
       /\ UNCHANGED <<appVars, alert_states, cooldown_period, custom_alert_actions, now,
                      sensors, hist, monitorVars>>

GetUpdateInterval ==
    LET g == get_update_interval(config)
    IN /\ config' = g.config
       /\ call' = [op |-> "get_update_interval", key |-> IntervalKey,
                   result |-> <<g.value>>, seeded |-> ~Readable(config, IntervalKey)]
       /\ UNCHANGED <<appVars, alert_states, cooldown_period, custom_alert_actions, now,
                      sensors, hist, monitorVars>>

GetLogTemperatures ==
    LET g == get_log_temperatures(config)
    IN /\ config' = g.config
       /\ call' = [op |-> "get_log_temperatures", key |-> LogKey,
                   result |-> <<g.value>>, seeded |-> ~Readable(config, LogKey)]
       /\ UNCHANGED <<appVars, alert_states, cooldown_period, custom_alert_actions, now,
                      sensors, hist, monitorVars>>

\* the settings are saved: config.set_update_interval(value)
ConfigSetUpdateInterval(value) ==
    /\ config' = set_update_interval(config, value)
    /\ call' = [op |-> "config.set_update_interval", key |-> IntervalKey,
                value |-> <<value>>]
    /\ UNCHANGED <<appVars, alert_states, cooldown_period, custom_alert_actions, now,
                   sensors, hist, monitorVars>>

\* the settings are saved: config.set_log_temperatures(value)
SetLogTemperatures(value) ==
    /\ config' = set_log_temperatures(config, value)
    /\ call' = [op |-> "set_log_temperatures", key |-> LogKey, value |-> <<value>>]
    /\ UNCHANGED <<appVars, alert_states, cooldown_period, custom_alert_actions, now,
                   sensors, hist, monitorVars>>

\* monitor.set_update_interval(interval)
SetUpdateInterval(interval) ==
    /\ update_interval' = HardwareMonitor_set_update_interval(interval)
    /\ call' = [op |-> "set_update_interval", interval |-> interval]
    /\ UNCHANGED <<sent_alerts, alert_history, race, sink_trace, alertVars, monitorVars, now,
                   sensors>>

\* ConfigManager has loaded the file, and AlertSystem.__init__ has read the
\* cooldown from it (line 29)
StoreInit ==
    /\ alert_states = InitialAlertStates
    /\ \E cfg \in StoredConfigs :
          /\ cooldown_period = get_alert_cooldown(cfg).value
          /\ config = get_alert_cooldown(cfg).config
    /\ custom_alert_actions = <<>>
    /\ hist = InitialHist
    /\ InitMonitor
    /\ now = 0
    /\ sensors = {"CPU"}
    /\ call = [op |-> "__init__"]

StoreNext ==
    \/ \E device \in Devices : GetThreshold(device)
    \/ \E value \in ThresholdChoices : SetThreshold("CPU", value)
    \/ GetAlertCooldown
    \/ \E value \in CooldownChoices : SetAlertCooldown(value)
    \/ GetUpdateInterval
    \/ \E value \in {2, 5} : ConfigSetUpdateInterval(value)
    \/ GetLogTemperatures
    \/ \E value \in BOOLEAN : SetLogTemperatures(value)
    \/ \E interval \in IntervalChoices : SetUpdateInterval(interval)

\* ConfigManager's getters and setters, and the monitor's interval setter
StoreSpec == StoreInit /\ [][StoreNext]_vars

----------------------------------------------------------------------------
\* MonitorApp.check_alerts and the alert history

\* The most entries alert_history keeps (src/main.py line 171)
HistoryLimit == 100

\* alert_history.pop() in place of pop(0)
pop_last(history) == SubSeq(history, 1, Len(history) - 1)

\* line 172: self.alert_history.pop(0)
pop_first(history) == Tail(history)

\* lines 163-172 for the messages from the i-th on: append the entry, then
\* drop the oldest one when more than 100 are held
RECURSIVE RecordAlerts(_, _, _, _)
RecordAlerts(history, alerts, i, time) ==
    IF i > Len(alerts) THEN history
    ELSE LET appended == Append(history, [time |-> time, message |-> alerts[i]])
         IN RecordAlerts(IF Len(appended) > HistoryLimit THEN pop_first(appended)
                                                         ELSE appended,
                         alerts, i + 1, time)

\* The text of a message as send_alert receives it; the empty string is
\* the text that holds nothing
Text(message) == <<message>>
EmptyText == <<>>

\* send_alert that remembers nothing
send_alert_forgets(sent, text) ==
    IF text = EmptyText THEN [sent_alerts |-> sent, delivered |-> FALSE]
    ELSE IF text \in sent THEN [sent_alerts |-> sent, delivered |-> FALSE]
    ELSE [sent_alerts |-> sent, delivered |-> TRUE]

\* NotificationManager.send_alert, src/utils/notification.py lines 38-74:
\* an empty text and a text already in sent_alerts return early (lines
\* 45-51); any other text is added to sent_alerts (line 54) and goes to the
\* toast, the sound and the tray icon (lines 57-74)
send_alert(sent, text) ==
    IF text = EmptyText THEN [sent_alerts |-> sent, delivered |-> FALSE]
    ELSE IF text \in sent THEN [sent_alerts |-> sent, delivered |-> FALSE]
    ELSE [sent_alerts |-> sent \cup {text}, delivered |-> TRUE]

\* NotificationManager.reset_alerts, lines 76-79: self.sent_alerts.clear()
reset_alerts(sent) == {}

\* line 174 for the messages from the i-th on: self.notifier.send_alert(alert)
RECURSIVE NotifyAlerts(_, _, _)
NotifyAlerts(n, alerts, i) ==
    IF i > Len(alerts) THEN n
    ELSE LET s == send_alert(n.sent_alerts, Text(alerts[i]))
         IN NotifyAlerts([sent_alerts |-> s.sent_alerts,
                          notified |-> IF s.delivered THEN Append(n.notified, alerts[i])
                                                      ELSE n.notified],
                         alerts, i + 1)

\* MonitorApp.check_alerts(), lines 160-179, with self.current_temps =
\* temperatures: every message is appended to the history and handed to the
\* notifier.  An exception of check_thresholds leaves the method at line 162.
AppCheckAlerts(temperatures) ==
    LET r == check_thresholds(alert_states, config, temperatures, now,
                              cooldown_period, custom_alert_actions)
        n == NotifyAlerts([sent_alerts |-> sent_alerts, notified |-> <<>>],
                          IF r.raised THEN <<>> ELSE r.alerts, 1)
    IN /\ alert_states' = r.states
       /\ config' = r.config
       /\ hist' = HistAfterCheck(hist, r, now)
       /\ alert_history' = IF r.raised THEN alert_history
                           ELSE RecordAlerts(alert_history, r.alerts, 1, now)
       /\ sent_alerts' = n.sent_alerts
       /\ call' = [op |-> "check_alerts", temperatures |-> temperatures,
                   alerts |-> IF r.raised THEN <<>> ELSE r.alerts,
                   notified |-> n.notified,
                   raised |-> r.raised]
       /\ UNCHANGED <<update_interval, race, sink_trace, cooldown_period,
                      custom_alert_actions, now, sensors, monitorVars>>

\* MonitorApp.on_settings_saved(), src/main.py lines 219-232:
\* alert_system.update_config(), notifier.reset_alerts(), and
\* config.get_update_interval() for the tray icon
OnSettingsSaved ==
    LET c == get_alert_cooldown(config)
        u == get_update_interval(c.config)
    IN /\ cooldown_period' = c.value
       /\ config' = u.config
       /\ sent_alerts' = reset_alerts(sent_alerts)
       /\ call' = [op |-> "on_settings_saved"]
       /\ UNCHANGED <<update_interval, alert_history, race, sink_trace, alert_states,
                      custom_alert_actions, hist, now, sensors, monitorVars>>

\* An alert history of n entries recorded before the clock of the model starts
PastHistory(n) ==
    [i \in 1..n |->
        [time |-> i - n - 1,
         message |-> IF i % 2 = 1 THEN BreachMsg("CPU", 95, Defaults[ThresholdKey("CPU")])
                                  ELSE RecoveryMsg("CPU", 70)]]

\* The application with an empty, an almost full or a full alert history
HistoryInit ==
    /\ alert_states = InitialAlertStates
    /\ config = set_alert_cooldown(DefaultConfig, 150)
    /\ cooldown_period = get_alert_cooldown(config).value
    /\ custom_alert_actions = <<>>
    /\ hist = InitialHist
    /\ is_running = FALSE
    /\ monitor_thread = None
    /\ threads = <<>>
    /\ caller = "idle"
    /\ last_temperatures = NoTemperatures
    /\ current_temperatures = NoTemperatures
    /\ last_alert_time = <<>>
    /\ callbacks = [ui |-> "none", alert |-> "none", log |-> "none"]
    /\ accepted_temperatures = NoTemperatures
    /\ update_interval = [seconds |-> Defaults[IntervalKey], type |-> "float"]
    /\ alert_history \in {PastHistory(n) : n \in {0, HistoryLimit - 1, HistoryLimit}}
    /\ race = [writer |-> None, reader |-> None]
    /\ sink_trace = <<>>
    /\ sent_alerts = {}
    /\ now = 0
    /\ sensors = {"CPU", "GPU"}
    /\ call = [op |-> "__init__"]

HistoryNext ==
    \/ Tick
    \/ \E temperatures \in Snapshots(sensors) : AppCheckAlerts(temperatures)

\* MonitorApp handling the messages of its alert system
HistorySpec == HistoryInit /\ [][HistoryNext]_vars

\* The application right after its construction: nothing in the history
NotifyInit ==
    /\ HistoryInit
    /\ alert_history = <<>>

NotifyNext ==
    \/ Tick
    \/ \E temperatures \in Snapshots(sensors) : AppCheckAlerts(temperatures)
    \/ OnSettingsSaved

\* MonitorApp handing its messages to the notifier, with the settings saved
\* at any time
NotifySpec == NotifyInit /\ [][NotifyNext]_vars

----------------------------------------------------------------------------
\* AlertSystem given snapshots whose keys come in any order

\* The orders in which a snapshot's items() may come
ItemOrders ==
    {o \in [1..Cardinality(Devices) -> Devices] :
        \A i, j \in 1..Cardinality(Devices) : o[i] = o[j] => i = j}

\* check_thresholds(temperatures) for a dict whose items() come in this order
CheckThresholdsItems(items, temperatures) ==
    LET r == check_thresholds_items(items, alert_states, config, temperatures, now,
                                    cooldown_period, custom_alert_actions)
    IN /\ alert_states' = r.states
       /\ config' = r.config
       /\ call' = [op |-> "check_thresholds", temperatures |-> temperatures,
                   alerts |-> r.alerts, invoked |-> r.invoked, raised |-> r.raised,
                   items |-> items]
       /\ hist' = HistAfterCheck(hist, r, now)
       /\ UNCHANGED <<appVars, cooldown_period, custom_alert_actions, now, sensors,
                      monitorVars>>

ItemsNext ==
    \/ Tick
    \/ \E items \in ItemOrders, temperatures \in Snapshots(sensors) :
          CheckThresholdsItems(items, temperatures)

\* AlertSystem given the readings of two sensors in any order of the keys
ItemsSpec == Init /\ [][ItemsNext]_vars

----------------------------------------------------------------------------
\* AlertSystem given snapshots that carry a device other than CPU, GPU, SSD

\* Snapshots with a CPU reading and a reading of the other device
ExtendedSnapshots ==
    {t \in [Devices \cup {UnknownDevice} -> {None} \cup {Some(v) : v \in TempValues}] :
        \A d \in Devices \ {"CPU"} : t[d] = None}

\* The orders of their items: the other device after or before the known ones
ExtendedItems == {DeviceOrder \o <<UnknownDevice>>, <<UnknownDevice>> \o DeviceOrder}

ExtendedNext ==
    \/ Tick
    \/ \E items \in ExtendedItems, temperatures \in ExtendedSnapshots :
          CheckThresholdsItems(items, temperatures)
    \/ \E value \in ThresholdChoices : SetThreshold(UnknownDevice, value)

\* AlertSystem on a machine that reports one more device
ExtendedSpec == SettingsInit /\ [][ExtendedNext]_vars

----------------------------------------------------------------------------
\* AlertSystem called again and again while the clock advances

\* An engine built on a configuration with either cooldown, with no custom
\* action or a raising one for every sensor
SustainedInit ==
    /\ alert_states = InitialAlertStates
    /\ \E value \in CooldownChoices :
          /\ config = set_alert_cooldown(DefaultConfig, value)
          /\ cooldown_period = get_alert_cooldown(config).value
    /\ sensors \in SensorSets
    /\ custom_alert_actions \in ActionChoices(sensors)
    /\ hist = InitialHist
    /\ InitMonitor
    /\ now = 0
    /\ call = [op |-> "__init__"]

\* some check_thresholds call
SomeCheck == \E temperatures \in Snapshots(sensors) : CheckThresholds(temperatures)

SustainedNext ==
    \/ Tick
    \/ SomeCheck
    \/ \E device \in sensors : ResetAlert(device)

\* The clock advances and check_thresholds keeps being called: the polling
\* loop calls it once per cycle (monitor.py line 92, main.py line 130)
SustainedFairSpec ==
    /\ SustainedInit
    /\ [][SustainedNext]_vars
    /\ WF_vars(Tick)
    /\ WF_vars(SomeCheck)

----------------------------------------------------------------------------
\* AlertSystem called by the polling thread and read by the tray thread.
\* Nothing in alert_system.py takes a lock, so the reader's calls fall
\* between any two statements of check_thresholds; the two writes of a
\* breach (lines 61 and 62) are therefore two steps.

\* device of the first breach message of a result
FirstBreach(r) ==
    r.alerts[CHOOSE i \in 1..Len(r.alerts) :
                /\ r.alerts[i].kind = "breach"
                /\ \A j \in 1..(i - 1) : r.alerts[j].kind # "breach"].device

HasBreach(r) == \E i \in 1..Len(r.alerts) : r.alerts[i].kind = "breach"

\* alert_states when the call has executed line 61 for device: the devices
\* iterated before it are done, its own active flag is written, its
\* last_triggered and the devices after it are as they were
StatesAtLine61(states, r, device) ==
    [d \in DOMAIN states |->
        IF Pos(d) < Pos(device) THEN r.states[d]
        ELSE IF d = device THEN [states[d] EXCEPT !.active = TRUE]
        ELSE states[d]]

\* is_alert_active with a subscript instead of .get
is_alert_active_subscript(states, device) ==
    IF device \in DOMAIN states
    THEN [value |-> states[device].active, raised |-> FALSE]
    ELSE [value |-> FALSE, raised |-> TRUE]

\* is_alert_active, lines 82-89: alert_states.get(device, {}).get('active', False)
is_alert_active(states, device) ==
    IF device \in DOMAIN states
    THEN [value |-> states[device].active, raised |-> FALSE]
    ELSE [value |-> FALSE, raised |-> FALSE]

\* get_last_alert_time, lines 91-98:
\* alert_states.get(device, {}).get('last_triggered', 0)
get_last_alert_time(states, device) ==
    IF device \in DOMAIN states
    THEN [value |-> states[device].last_triggered, raised |-> FALSE]
    ELSE [value |-> 0, raised |-> FALSE]

\* a check_thresholds call that emits no breach message
CheckThresholdsQuiet(temperatures) ==
    /\ race.writer = None
    /\ ~HasBreach(check_thresholds(alert_states, config, temperatures, now,
                                   cooldown_period, custom_alert_actions))
    /\ CheckThresholds(temperatures)

\* a check_thresholds call up to and including line 61 of its first breach
BreachLine61(temperatures) ==
    LET r == check_thresholds(alert_states, config, temperatures, now,
                              cooldown_period, custom_alert_actions)
    IN /\ race.writer = None
       /\ HasBreach(r)
       /\ alert_states' = StatesAtLine61(alert_states, r, FirstBreach(r))
       /\ race' = [race EXCEPT !.writer =
                      Some([device |-> FirstBreach(r), temperatures |-> temperatures,
                            current_time |-> now,
                            before |-> alert_states[FirstBreach(r)].last_triggered,
                            result |-> r])]
       /\ call' = [op |-> "check_thresholds:61", device |-> FirstBreach(r)]
       /\ UNCHANGED <<sent_alerts, update_interval, alert_history, sink_trace, cooldown_period,
                      custom_alert_actions, config, hist, now, sensors, monitorVars>>

\* the same call from line 62 to its return
BreachLine62 ==
    /\ race.writer # None
    /\ LET w == race.writer[1]
       IN /\ alert_states' = w.result.states
          /\ config' = w.result.config
          /\ call' = [op |-> "check_thresholds", temperatures |-> w.temperatures,
                      alerts |-> w.result.alerts, invoked |-> w.result.invoked,
                      raised |-> w.result.raised]
          /\ hist' = HistAfterCheck(hist, w.result, w.current_time)
    /\ race' = [race EXCEPT !.writer = None]
    /\ UNCHANGED <<sent_alerts, update_interval, alert_history, sink_trace, cooldown_period,
                   custom_alert_actions, now, sensors, monitorVars>>

\* the reader calls is_alert_active(device)
IsAlertActive(device) ==
    LET a == is_alert_active(alert_states, device)
    IN /\ call' = [op |-> "is_alert_active", device |-> device,
                   result |-> <<a.value>>, raised |-> a.raised]
       /\ race' = [race EXCEPT !.reader =
                      Some([device |-> device, active |-> a.value,
                            breach |-> IF race.writer # None
                                          /\ race.writer[1].device = device
                                       THEN Some(race.writer[1].current_time)
                                       ELSE None])]
       /\ UNCHANGED <<sent_alerts, update_interval, alert_history, sink_trace, alertVars, now,
                      sensors, monitorVars>>

\* the reader calls get_last_alert_time(device)
GetLastAlertTime(device) ==
    LET t == get_last_alert_time(alert_states, device)
    IN /\ call' = [op |-> "get_last_alert_time", device |-> device,
                   result |-> <<t.value>>, raised |-> t.raised]
       /\ UNCHANGED <<appVars, alertVars, now, sensors, monitorVars>>

AccessorNext ==
    \/ Tick
    \/ \E temperatures \in Snapshots(sensors) : CheckThresholdsQuiet(temperatures)
    \/ \E temperatures \in Snapshots(sensors) : BreachLine61(temperatures)
    \/ BreachLine62
    \/ \E device \in Devices \cup {UnknownDevice} : IsAlertActive(device)
    \/ \E device \in Devices \cup {UnknownDevice} : GetLastAlertTime(device)

\* One thread in check_thresholds, another calling the read accessors
AccessorSpec == SettingsInit /\ [][AccessorNext]_vars

----------------------------------------------------------------------------
\* AlertSystem with every method of its interface called in any order

FrameNext ==
    \/ Tick
    \/ \E temperatures \in Snapshots(sensors) : CheckThresholds(temperatures)
    \/ \E device \in sensors : ResetAlert(device)
    \/ \E device \in sensors, action \in Callbacks : SetCustomAlertAction(device, action)
    \/ \E value \in CooldownChoices : SetAlertCooldown(value)
    \/ UpdateConfig
    \/ \E device \in sensors : IsAlertActive(device)
    \/ \E device \in sensors : GetLastAlertTime(device)

FrameSpec == SettingsInit /\ [][FrameNext]_vars

----------------------------------------------------------------------------
\* HardwareMonitor: the calling thread and the polling threads

\* a caller runs start_monitoring()
StartMonitoring ==
    /\ caller = "idle"
    /\ is_running \/ Len(threads) < MaxThreads
    /\ LET m == start_monitoring([is_running |-> is_running, threads |-> threads,
                                  monitor_thread |-> monitor_thread])
       IN /\ is_running' = m.is_running
          /\ threads' = m.threads
          /\ monitor_thread' = m.monitor_thread
    /\ call' = [op |-> "start_monitoring", was_running |-> is_running]
    /\ UNCHANGED <<appVars, alertVars, caller, last_temperatures, current_temperatures,
                   last_alert_time, callbacks, now, sensors,
                   accepted_temperatures>>

\* a caller runs stop_monitoring() up to the join of line 67
StopMonitoring ==
    /\ caller = "idle"
    /\ IF ~is_running
       THEN UNCHANGED <<is_running, caller>>
       ELSE /\ is_running' = FALSE
            /\ caller' = IF IsAlive(threads, monitor_thread) THEN "joining" ELSE "idle"
    /\ call' = [op |-> "stop_monitoring", was_running |-> is_running]
    /\ UNCHANGED <<appVars, alertVars, monitor_thread, threads, last_temperatures,
                   current_temperatures, last_alert_time, callbacks, now, sensors,
                   accepted_temperatures>>

\* join(timeout=5) returns because the polling thread has ended
JoinReturns ==
    /\ caller = "joining"
    /\ ~IsAlive(threads, monitor_thread)
    /\ caller' = "idle"
    /\ call' = [op |-> "join", timed_out |-> FALSE, log |-> "info"]
    /\ UNCHANGED <<appVars, alertVars, is_running, monitor_thread, threads, last_temperatures,
                   current_temperatures, last_alert_time, callbacks, now, sensors,
                   accepted_temperatures>>

\* join(timeout=5) returns after 5 seconds with the polling thread still
\* alive (asleep for update_interval or in a sensor read that takes longer)
JoinTimesOut ==
    /\ caller = "joining"
    /\ IsAlive(threads, monitor_thread)
    /\ caller' = "idle"
    /\ call' = [op |-> "join", timed_out |-> TRUE, log |-> "info"]
    /\ UNCHANGED <<appVars, alertVars, is_running, monitor_thread, threads, last_temperatures,
                   current_temperatures, last_alert_time, callbacks, now, sensors,
                   accepted_temperatures>>

\* line 75: the polling thread seeds last_temperatures
ThreadInit(t, temperatures) ==
    /\ threads[t] = "init"
    /\ last_temperatures' = temperatures
    /\ threads' = [threads EXCEPT ![t] = "loop"]
    /\ call' = [op |-> "thread_init", thread |-> t]
    /\ UNCHANGED <<appVars, alertVars, is_running, monitor_thread, caller, current_temperatures,
                   last_alert_time, callbacks, now, sensors,
                   accepted_temperatures>>

\* line 77: while self.is_running
LoopTest(t) ==
    /\ threads[t] = "loop"
    /\ threads' = [threads EXCEPT ![t] = loop_test(is_running)]
    /\ call' = [op |-> "loop_test", thread |-> t, newest |-> Len(threads),
                is_running |-> is_running]
    /\ UNCHANGED <<appVars, alertVars, is_running, monitor_thread, caller, last_temperatures,
                   current_temperatures, last_alert_time, callbacks, now, sensors,
                   accepted_temperatures>>

\* lines 78-108: one cycle of the polling thread, up to its sleep
Cycle(t, temperatures) ==
    LET c == monitor_cycle(
                [alert_states |-> alert_states, config |-> config,
                 cooldown_period |-> cooldown_period,
                 custom_alert_actions |-> custom_alert_actions,
                 last_temperatures |-> last_temperatures,
                 last_alert_time |-> last_alert_time, callbacks |-> callbacks],
                temperatures, now)
    IN /\ threads[t] = "cycle"
       /\ threads' = [threads EXCEPT ![t] = IF c.raised THEN OnException("sleep")
                                                         ELSE "sleep"]
       /\ current_temperatures' = temperatures
       /\ alert_states' = c.alert_states
       /\ config' = c.config
       /\ last_temperatures' = c.last_temperatures
       /\ last_alert_time' = c.last_alert_time
       /\ hist' = HistAfterCheck(hist, [alerts |-> c.produced], now)
       /\ accepted_temperatures' = IF c.accepted THEN temperatures
                                                 ELSE accepted_temperatures
       /\ call' = [op |-> "cycle", thread |-> t, temperatures |-> temperatures,
                   accepted |-> c.accepted, checked |-> c.checked,
                   raised |-> c.raised, ui |-> c.ui, alerts |-> c.alerts,
                   forwarded |-> c.forwarded, logged |-> c.logged]
       /\ UNCHANGED <<appVars, cooldown_period, custom_alert_actions, is_running,
                      monitor_thread, caller, callbacks, now, sensors>>

\* a caller runs get_current_temperatures()
GetCurrentTemperatures ==
    /\ call' = [op |-> "get_current_temperatures", result |-> current_temperatures]
    /\ UNCHANGED <<appVars, alertVars, monitorVars, now, sensors>>

\* time.sleep returns
Wake(t) ==
    /\ threads[t] = "sleep"
    /\ threads' = [threads EXCEPT ![t] = "loop"]
    /\ call' = [op |-> "wake", thread |-> t]
    /\ UNCHANGED <<appVars, alertVars, is_running, monitor_thread, caller, last_temperatures,
                   current_temperatures, last_alert_time, callbacks, now, sensors,
                   accepted_temperatures>>

\* a caller runs set_ui_update_callback, set_alert_callback or set_log_callback
SetCallback(sink, callback) ==
    /\ callbacks' = [callbacks EXCEPT ![sink] = callback]
    /\ call' = [op |-> "set_callback", sink |-> sink]
    /\ UNCHANGED <<appVars, alertVars, is_running, monitor_thread, threads, caller,
                   last_temperatures, current_temperatures, last_alert_time,
                   now, sensors,
                   accepted_temperatures>>

\* The machines of the monitor model: one sensor, the clock past the cooldown
MonitorInit ==
    /\ InitAlertSystem
    /\ InitMonitor
    /\ now = MaxTicks * TickSeconds
    /\ sensors \in {S \in SUBSET Devices : Cardinality(S) = 1}
    /\ call = [op |-> "__init__"]

MonitorNext ==
    \/ StartMonitoring
    \/ StopMonitoring
    \/ JoinReturns
    \/ JoinTimesOut
    \/ \E t \in 1..Len(threads), temperatures \in Snapshots(sensors) :
          ThreadInit(t, temperatures)
    \/ \E t \in 1..Len(threads) : LoopTest(t)
    \/ \E t \in 1..Len(threads), temperatures \in Snapshots(sensors) :
          Cycle(t, temperatures)
    \/ \E t \in 1..Len(threads) : Wake(t)
    \/ \E sink \in Sinks, callback \in SinkCallbacks : SetCallback(sink, callback)
    \/ GetCurrentTemperatures

\* HardwareMonitor with its polling threads
MonitorSpec == MonitorInit /\ [][MonitorNext]_vars

\* the steps of polling thread t
PollingThread(t) ==
    /\ t \in 1..Len(threads)
    /\ \/ \E temperatures \in Snapshots(sensors) : ThreadInit(t, temperatures)
       \/ LoopTest(t)
       \/ \E temperatures \in Snapshots(sensors) : Cycle(t, temperatures)
       \/ Wake(t)

\* A monitor whose three sinks were set before its first start
LifecycleInit ==
    /\ InitAlertSystem
    /\ is_running = FALSE
    /\ monitor_thread = None
    /\ threads = <<>>
    /\ caller = "idle"
    /\ last_temperatures = NoTemperatures
    /\ current_temperatures = NoTemperatures
    /\ last_alert_time = <<>>
    /\ callbacks = [sink \in Sinks |-> "ok"]
    /\ accepted_temperatures = NoTemperatures
    /\ InitApp
    /\ now = MaxTicks * TickSeconds
    /\ sensors \in {S \in SUBSET Devices : Cardinality(S) = 1}
    /\ call = [op |-> "set_callback", sink |-> "log"]

LifecycleNext ==
    \/ StartMonitoring
    \/ StopMonitoring
    \/ JoinReturns
    \/ JoinTimesOut
    \/ \E t \in 1..Len(threads), temperatures \in Snapshots(sensors) :
          ThreadInit(t, temperatures)
    \/ \E t \in 1..Len(threads) : LoopTest(t)
    \/ \E t \in 1..Len(threads), temperatures \in Snapshots(sensors) :
          Cycle(t, temperatures)
    \/ \E t \in 1..Len(threads) : Wake(t)

\* Starting and stopping, where every polling thread that can take a step
\* eventually takes one: the scheduler runs it, its sleep ends and its
\* sensor read returns
MonitorFairSpec ==
    /\ LifecycleInit
    /\ [][LifecycleNext]_vars
    /\ \A t \in 1..MaxThreads : WF_vars(PollingThread(t))

----------------------------------------------------------------------------
\* HardwareMonitor given a hardware_reader (the constructor's argument,
\* line 14) whose get_all_temperatures() may raise

\* The read raises.  At line 75 nothing catches it: the exception ends the
\* polling thread and is_running keeps its value.  At line 82 the except of
\* line 106 catches it and the thread sleeps 5 seconds.
ReadRaises(t) ==
    /\ threads[t] \in {"init", "cycle"}
    /\ threads' = [threads EXCEPT ![t] = IF threads[t] = "init" THEN "done"
                                          ELSE OnException("sleep")]
    /\ call' = [op |-> "read_raises", thread |-> t,
                line |-> IF threads[t] = "init" THEN 75 ELSE 82]
    /\ UNCHANGED <<appVars, alertVars, is_running, monitor_thread, caller, last_temperatures,
                   current_temperatures, last_alert_time, callbacks, now, sensors,
                   accepted_temperatures>>

ReaderNext ==
    \/ LifecycleNext
    \/ \E t \in 1..Len(threads) : ReadRaises(t)

ReaderSpec == LifecycleInit /\ [][ReaderNext]_vars

----------------------------------------------------------------------------
\* HardwareMonitor: the cycles of one polling thread

\* Readings of a poll: two of them 20 or less apart and on either side of
\* every default threshold but SSD's, the third more than 20 away
PollValues == {60, 75, 95}
PollSnapshots(S) ==
    {t \in [Devices -> {None} \cup {Some(v) : v \in PollValues}] :
        \A d \in Devices \ S : t[d] = None}

\* The callables an application registers for all three sinks
SinkChoices == {[sink \in Sinks |-> "ok"], [sink \in Sinks |-> "fail"]}

\* A monitor whose start_monitoring() has just returned, with a cooldown
\* of 150 seconds in its configuration file
RunningMonitor ==
    /\ alert_states = InitialAlertStates
    /\ config = set_alert_cooldown(DefaultConfig, 150)
    /\ cooldown_period = get_alert_cooldown(config).value
    /\ hist = InitialHist
    /\ is_running = TRUE
    /\ monitor_thread = Some(1)
    /\ threads = <<"init">>
    /\ caller = "idle"
    /\ last_temperatures = NoTemperatures
    /\ current_temperatures = NoTemperatures
    /\ last_alert_time = <<>>
    /\ accepted_temperatures = NoTemperatures
    /\ InitApp
    /\ now = 0
    /\ call = [op |-> "start_monitoring", was_running |-> FALSE]

\* A running monitor on a machine with one sensor
CycleInit ==
    /\ RunningMonitor
    /\ sensors \in {S \in SUBSET Devices : Cardinality(S) = 1}
    /\ custom_alert_actions \in ActionChoices(sensors)
    /\ callbacks \in SinkChoices

\* A running monitor whose three sinks all raise, on a machine with a CPU
\* and a GPU sensor
FanoutInit ==
    /\ RunningMonitor
    /\ sensors = {"CPU", "GPU"}
    /\ custom_alert_actions = <<>>
    /\ callbacks = [sink \in Sinks |-> "fail"]

CycleNext ==
    \/ Tick
    \/ \E t \in 1..Len(threads), temperatures \in PollSnapshots(sensors) :
          ThreadInit(t, temperatures)
    \/ \E t \in 1..Len(threads) : LoopTest(t)
    \/ \E t \in 1..Len(threads), temperatures \in PollSnapshots(sensors) :
          Cycle(t, temperatures)
    \/ \E t \in 1..Len(threads) : Wake(t)

\* One polling thread that is never stopped
CycleSpec == CycleInit /\ [][CycleNext]_vars

\* One polling thread whose sinks raise
FanoutSpec == FanoutInit /\ [][CycleNext]_vars

\* the steps of polling thread t on the readings of CycleSpec
PollingCycle(t) ==
    /\ t \in 1..Len(threads)
    /\ \/ \E temperatures \in PollSnapshots(sensors) : ThreadInit(t, temperatures)
       \/ LoopTest(t)
       \/ \E temperatures \in PollSnapshots(sensors) : Cycle(t, temperatures)
       \/ Wake(t)

\* The polling thread keeps taking steps: the scheduler runs it, its sleeps
\* end and its sensor reads return
CycleFairSpec == CycleSpec /\ WF_vars(PollingCycle(1))

----------------------------------------------------------------------------
\* Two polling threads.  stop_monitoring() gives up its join after 2 seconds
\* (line 65) while the thread sleeps update_interval, and start_monitoring()
\* then sets is_running again and spawns a second thread; the first one wakes,
\* finds is_running true and goes on polling.  Both threads assign
\* self.current_temperatures (line 82) and every later statement of a cycle
\* reads that field again (lines 114, 138, 145, 177, 99) with no lock, so a
\* cycle is a sequence of steps the other thread can come between.

\* what a sink invocation adds to the cycle's trace
Invoked(trace, t, sink, snapshot) ==
    [k \in DOMAIN trace |->
        IF k = t THEN Append(trace[k], [sink |-> sink, snapshot |-> snapshot])
                 ELSE trace[k]]

\* line 82: self.current_temperatures = self.hardware_reader.get_all_temperatures()
ReadSensors(t, temperatures) ==
    /\ threads[t] = "cycle"
    /\ current_temperatures' = temperatures
    /\ threads' = [threads EXCEPT ![t] = "validate"]
    /\ sink_trace' = [k \in DOMAIN sink_trace |-> IF k = t THEN <<>> ELSE sink_trace[k]]
    /\ call' = [op |-> "read", thread |-> t]
    /\ UNCHANGED <<sent_alerts, update_interval, alert_history, race, alertVars, is_running,
                   monitor_thread, caller, last_temperatures, last_alert_time,
                   callbacks, accepted_temperatures, now, sensors>>

\* lines 85-87: if not self._validate_temperatures(): sleep; continue
Validate(t) ==
    /\ threads[t] = "validate"
    /\ threads' = [threads EXCEPT ![t] =
                      IF validate_temperatures(current_temperatures, last_temperatures)
                      THEN "ui" ELSE "sleep"]
    /\ accepted_temperatures' =
          IF validate_temperatures(current_temperatures, last_temperatures)
          THEN current_temperatures ELSE accepted_temperatures
    /\ call' = [op |-> "validate", thread |-> t]
    /\ UNCHANGED <<appVars, alertVars, is_running, monitor_thread, caller,
                   last_temperatures, current_temperatures, last_alert_time,
                   callbacks, now, sensors>>

\* line 89: self._update_ui()
UpdateUi(t) ==
    /\ threads[t] = "ui"
    /\ threads' = [threads EXCEPT ![t] = "check"]
    /\ sink_trace' = IF callbacks.ui # "none"
                     THEN Invoked(sink_trace, t, "ui", current_temperatures)
                     ELSE sink_trace
    /\ call' = [op |-> "_update_ui", thread |-> t]
    /\ UNCHANGED <<sent_alerts, update_interval, alert_history, race, alertVars, is_running,
                   monitor_thread, caller, last_temperatures, current_temperatures,
                   last_alert_time, callbacks, accepted_temperatures, now, sensors>>

\* line 92: self._check_alerts()
CheckAlerts(t) ==
    LET r == check_thresholds(alert_states, config, current_temperatures, now,
                              cooldown_period, custom_alert_actions)
        f == ForwardAlerts([last_alert_time |-> last_alert_time, config |-> r.config,
                            forwarded |-> <<>>, raised |-> FALSE],
                           r.alerts, 1, now, callbacks.alert)
    IN /\ threads[t] = "check"
       /\ threads' = [threads EXCEPT ![t] = IF r.raised THEN OnException("check")
                                                         ELSE "log"]
       /\ alert_states' = r.states
       /\ config' = IF r.raised THEN r.config ELSE f.config
       /\ last_alert_time' = IF r.raised THEN last_alert_time ELSE f.last_alert_time
       /\ hist' = HistAfterCheck(hist, r, now)
       /\ sink_trace' = Invoked(sink_trace, t, "check", current_temperatures)
       /\ call' = [op |-> "_check_alerts", thread |-> t, alerts |-> r.alerts,
                   forwarded |-> IF r.raised THEN <<>> ELSE f.forwarded]
       /\ UNCHANGED <<sent_alerts, update_interval, alert_history, race, cooldown_period,
                      custom_alert_actions, is_running, monitor_thread, caller,
                      last_temperatures, current_temperatures, callbacks,
                      accepted_temperatures, now, sensors>>

\* line 95: self._log_temperatures()
LogTemperatures(t) ==
    LET lg == get_log_temperatures(config)
    IN /\ threads[t] = "log"
       /\ threads' = [threads EXCEPT ![t] = "last"]
       /\ config' = lg.config
       /\ sink_trace' = IF lg.value /\ callbacks.log # "none"
                        THEN Invoked(sink_trace, t, "log", current_temperatures)
                        ELSE sink_trace
       /\ call' = [op |-> "_log_temperatures", thread |-> t, enabled |-> lg.value]
       /\ UNCHANGED <<sent_alerts, update_interval, alert_history, race, alert_states,
                      cooldown_period, custom_alert_actions, hist, is_running,
                      monitor_thread, caller, last_temperatures, current_temperatures,
                      last_alert_time, callbacks, accepted_temperatures, now, sensors>>

\* lines 99-104: self.last_temperatures = self.current_temperatures.copy(); sleep
UpdateLast(t) ==
    /\ threads[t] = "last"
    /\ last_temperatures' = current_temperatures
    /\ threads' = [threads EXCEPT ![t] = "sleep"]
    /\ call' = [op |-> "cycle_end", thread |-> t]
    /\ UNCHANGED <<appVars, alertVars, is_running, monitor_thread, caller,
                   current_temperatures, last_alert_time, callbacks,
                   accepted_temperatures, now, sensors>>

\* The monitor after stop_monitoring() timed out on a sleeping thread and
\* start_monitoring() spawned the second one
OverlapInit ==
    /\ sensors = {"CPU"}
    /\ alert_states = InitialAlertStates
    /\ config = set_alert_cooldown(DefaultConfig, 150)
    /\ cooldown_period = get_alert_cooldown(config).value
    /\ custom_alert_actions = <<>>
    /\ hist = InitialHist
    /\ is_running = TRUE
    /\ monitor_thread = Some(2)
    /\ threads = <<"sleep", "init">>
    /\ caller = "idle"
    /\ last_temperatures \in PollSnapshots(sensors)
    /\ current_temperatures = last_temperatures
    /\ accepted_temperatures = last_temperatures
    /\ last_alert_time = <<>>
    /\ callbacks = [sink \in Sinks |-> "ok"]
    /\ update_interval = [seconds |-> Defaults[IntervalKey], type |-> "float"]
    /\ alert_history = <<>>
    /\ race = [writer |-> None, reader |-> None]
    /\ sink_trace = [t \in 1..2 |-> <<>>]
    /\ sent_alerts = {}
    /\ now = 0
    /\ call = [op |-> "start_monitoring", was_running |-> FALSE]

OverlapNext ==
    \/ \E t \in 1..Len(threads), temperatures \in PollSnapshots(sensors) :
          ThreadInit(t, temperatures)
    \/ \E t \in 1..Len(threads) : LoopTest(t)
    \/ \E t \in 1..Len(threads), temperatures \in PollSnapshots(sensors) :
          ReadSensors(t, temperatures)
    \/ \E t \in 1..Len(threads) : Validate(t)
    \/ \E t \in 1..Len(threads) : UpdateUi(t)
    \/ \E t \in 1..Len(threads) : CheckAlerts(t)
    \/ \E t \in 1..Len(threads) : LogTemperatures(t)
    \/ \E t \in 1..Len(threads) : UpdateLast(t)
    \/ \E t \in 1..Len(threads) : Wake(t)

\* Two polling threads, statement by statement
OverlapSpec == OverlapInit /\ [][OverlapNext]_vars

----------------------------------------------------------------------------
\* Statements about AlertSystem, checked under Spec.  In a step of
\* check_thresholds the unprimed variables are the engine before the call and
\* now is the time.time() the call read; call' describes the call.

IsCheck(c) == c.op = "check_thresholds"

\* C1: cooldown gate.  Once a call has produced a breach message for a device
\* at time T, no check_thresholds call made earlier than T + cooldown_period
\* produces another breach message for that device, whatever happened to the
\* device in between (recoveries, reset_alert, any number of calls).
C1_CooldownGate ==
    [][IsCheck(call') =>
         \A d \in Devices :
            (/\ hist[d].breachAt # None
             /\ now < hist[d].breachAt[1] + cooldown_period)
            => ~HasMsg(call'.alerts, d, "breach")]_vars

\* C1 witness: an over-threshold reading of a device was suppressed inside the
\* window of its last breach after the alert had been cleared in between.
C1_Witness ==
    /\ IsCheck(call)
    /\ \E d \in Devices :
          /\ Above(config, call.temperatures, d)
          /\ ~HasMsg(call.alerts, d, "breach")
          /\ hist[d].breachAt # None
          /\ now < hist[d].breachAt[1] + cooldown_period
          /\ ~alert_states[d].active

C3_FirstBreachAtAnyTime ==
    [][(IsCheck(call') /\ ~call'.raised /\ alert_states = InitialAlertStates) =>
         \A d \in Devices :
            Above(config, call'.temperatures, d)
            => /\ HasMsg(call'.alerts, d, "breach")
               /\ CountMsg(call'.alerts, d) = 1]_vars

\* C4: a recovery message is produced for a device exactly when the call turns
\* its active flag from true to false, which is when the device was active and
\* its reading is present and at most the threshold; the cooldown plays no part.
C4_RecoveryIffActiveCleared ==
    [][IsCheck(call') =>
         \A d \in Devices :
            /\ HasMsg(call'.alerts, d, "recovery")
                 <=> (alert_states[d].active /\ ~alert_states'[d].active)
            /\ HasMsg(call'.alerts, d, "recovery")
                 <=> (/\ alert_states[d].active
                      /\ d \in Reached(call', call'.temperatures)
                      /\ call'.temperatures[d] # None
                      /\ ~Above(config, call'.temperatures, d))
            /\ HasMsg(call'.alerts, d, "recovery") => CountMsg(call'.alerts, d) = 1]_vars

\* C4 witness: a recovery message produced while the cooldown of the breach
\* it ends is still running.
C4_Witness ==
    /\ IsCheck(call)
    /\ ~call.raised
    /\ \E d \in Devices :
          /\ HasMsg(call.alerts, d, "recovery")
          /\ ~alert_states[d].active
          /\ hist[d].breachAt # None
          /\ now < hist[d].breachAt[1] + cooldown_period

\* The registered actions with every callback replaced by one that returns
Quiet(actions) == [d \in DOMAIN actions |-> "beep"]

\* C5 as claimed: a registered action that raises changes nothing of the
\* call's outcome: check_thresholds returns, with the messages and the alert
\* states it would have had if the action had returned.
C5_RaisingActionIsContained ==
    [][IsCheck(call') =>
         LET ok == check_thresholds(alert_states, config, call'.temperatures, now,
                                    cooldown_period, Quiet(custom_alert_actions))
         IN /\ ~call'.raised
            /\ call'.alerts = ok.alerts
            /\ alert_states' = ok.states]_vars

\* C6: a device whose reading is None keeps its AlertState and gets no
\* message; a snapshot whose present readings are all at most the threshold,
\* of devices that are not active, gives no message at all.
C6_NoneReadingIsSkipped ==
    [][IsCheck(call') =>
         /\ \A d \in Devices :
               call'.temperatures[d] = None
               => /\ alert_states'[d] = alert_states[d]
                  /\ CountMsg(call'.alerts, d) = 0
         /\ (\A d \in Devices :
               \/ call'.temperatures[d] = None
               \/ (~Above(config, call'.temperatures, d) /\ ~alert_states[d].active))
            => call'.alerts = <<>>]_vars

\* C6 witness: a call that processed a reading of another device left an
\* active device, whose reading was None, active and without a message.
C6_Witness ==
    /\ IsCheck(call)
    /\ call.alerts = <<>>
    /\ \E d, e \in Devices :
          /\ call.temperatures[d] = None
          /\ alert_states[d].active
          /\ call.temperatures[e] # None

\* C7: reset_alert(device) clears the active flag of that device and nothing
\* else: last_triggered of the device, the AlertState of every other device,
\* the cooldown, the actions and the configuration stay, it builds no message
\* and it does not raise; for a device the engine does not know it changes
\* nothing.
C7_ResetAlertFrame ==
    [][call'.op = "reset_alert" =>
         /\ ~call'.raised
         /\ DOMAIN alert_states' = DOMAIN alert_states
         /\ \A d \in Devices :
               alert_states'[d] =
                 IF d = call'.device
                 THEN [active |-> FALSE, last_triggered |-> alert_states[d].last_triggered]
                 ELSE alert_states[d]
         /\ call'.device \notin Devices => alert_states' = alert_states
         /\ UNCHANGED <<cooldown_period, custom_alert_actions, config, now>>]_vars

\* C7 witness: reset_alert on a device that breached, while another device is
\* still active.
C7_Witness ==
    /\ call.op = "reset_alert"
    /\ call.device \in Devices
    /\ hist[call.device].reset
    /\ ~alert_states[call.device].active
    /\ alert_states[call.device].last_triggered > 0
    /\ \E e \in Devices \ {call.device} : alert_states[e].active

\* C8: an active device has last_triggered equal to the time of the most
\* recent call in which an over-threshold reading of it passed the cooldown
\* gate (and so produced a breach message); no device is active before such a
\* call has set its last_triggered.
C8_ActiveImpliesLastTriggered ==
    \A d \in Devices :
       alert_states[d].active
       => /\ hist[d].breachAt # None
          /\ alert_states[d].last_triggered = hist[d].breachAt[1]

\* C8 witness: a device active from a breach at the latest time of the model,
\* after update_config changed the cooldown.
C8_Witness ==
    /\ call.op = "update_config"
    /\ cooldown_period # Defaults[CooldownKey]
    /\ \E d \in Devices :
          /\ alert_states[d].active
          /\ alert_states[d].last_triggered = MaxTicks * TickSeconds

----------------------------------------------------------------------------
\* Statements about HardwareMonitor's life cycle, over MonitorSpec

\* C9: at most one polling thread executes cycles: a polling thread that has
\* been superseded by a newer one (so stop_monitoring() told it to stop before
\* start_monitoring() spawned the newer one) leaves the loop at its next test
\* of is_running and starts no further cycle
C9_SupersededThreadExits ==
    [][(call'.op = "loop_test" /\ call'.thread < Len(threads))
         => threads'[call'.thread] = "done"]_vars

\* C10: start_monitoring() while Running changes neither is_running nor
\* monitor_thread nor the set of threads; from Stopped it sets is_running and
\* adds exactly one thread, at its start, which monitor_thread then refers to
C10_StartMonitoring ==
    [][call'.op = "start_monitoring"
         => IF is_running
            THEN UNCHANGED <<is_running, monitor_thread, threads>>
            ELSE /\ is_running'
                 /\ Len(threads') = Len(threads) + 1
                 /\ SubSeq(threads', 1, Len(threads)) = threads
                 /\ threads'[Len(threads')] = "init"
                 /\ monitor_thread' = Some(Len(threads'))]_vars

\* C10: start_monitoring() has just been called while the one polling thread
\* spawned by an earlier call was asleep between two cycles
C10_Witness ==
    /\ call.op = "start_monitoring"
    /\ call.was_running
    /\ is_running
    /\ Len(threads) = 1
    /\ monitor_thread = Some(1)
    /\ threads[1] = "sleep"

\* C11: stop_monitoring() while Stopped changes nothing; otherwise the flag
\* is false from the step that starts the wait for the polling thread; while
\* the flag stays false no polling thread starts a cycle, so the only sinks
\* invoked are those of a cycle already in progress; and if the flag stays
\* false forever, every polling thread eventually has left its loop
C11_StopMonitoring ==
    /\ [][call'.op = "stop_monitoring"
            => IF ~is_running
               THEN UNCHANGED <<is_running, monitor_thread, threads, caller>>
               ELSE ~is_running' /\ caller' \in {"idle", "joining"}]_vars
    /\ [](caller = "joining" => ~is_running)
    /\ [][(~is_running /\ ~is_running')
            => \A t \in 1..Len(threads) :
                  threads[t] # "cycle" => threads'[t] # "cycle"]_vars
    /\ (<>[](~is_running))
          => <>[](\A t \in 1..Len(threads) : threads[t] = "done")

\* C11: stop_monitoring() is waiting in its join and the polling thread has
\* just found the flag false at its loop test and left the loop
C11_Witness ==
    /\ caller = "joining"
    /\ ~is_running
    /\ call.op = "loop_test"
    /\ ~call.is_running
    /\ threads[call.thread] = "done"

\* C12: when the join of stop_monitoring() ends with the polling thread still
\* alive, stop_monitoring() returns and what it logs is a warning
C12_TimeoutLogsWarning ==
    [][(call'.op = "join" /\ call'.timed_out)
         => (caller' = "idle" /\ call'.log = "warning")]_vars

----------------------------------------------------------------------------
\* Statements about a raising hardware_reader, over ReaderSpec

\* C34: while is_running is true some polling thread is alive, whatever read
\* of the sensor source raises
C34_RunningHasLiveThread ==
    is_running => \E t \in 1..Len(threads) : threads[t] # "done"

----------------------------------------------------------------------------
\* Statements about the cycles of HardwareMonitor, over CycleSpec

IsCycle(c) == c.op = "cycle"

\* C13: in a cycle that validation accepted and that ran to its end, the
\* messages passed to the alert sink are exactly the messages check_thresholds
\* returned, each once and in that order
C13_EveryMessageForwarded ==
    [][(IsCycle(call') /\ call'.accepted /\ ~call'.raised /\ callbacks.alert # "none")
         => call'.forwarded = call'.alerts]_vars

\* some device has a reading in both snapshots and the two differ by more than 20
Jumps(current, reference) ==
    \E d \in Devices :
       /\ current[d] # None
       /\ reference[d] # None
       /\ Abs(current[d][1] - reference[d][1]) > MaxJump

\* the step is a cycle that invoked no sink, did not call check_thresholds
\* and changed no AlertState
RejectedCycle ==
    /\ ~call'.accepted
    /\ ~call'.checked
    /\ call'.ui = <<>> /\ call'.forwarded = <<>> /\ call'.logged = <<>>
    /\ alert_states' = alert_states

\* C14, as stated: a cycle whose snapshot jumps by more than 20 from the
\* snapshot of the previous accepted cycle is rejected
C14_JumpFromAcceptedRejected ==
    [][(IsCycle(call') /\ Jumps(call'.temperatures, accepted_temperatures))
         => RejectedCycle]_vars

\* C14, amended: a cycle whose snapshot jumps by more than 20 from the
\* reference snapshot last_temperatures is rejected: no sink is invoked,
\* check_thresholds is not called and no AlertState changes
C14_JumpFromReferenceRejected ==
    [][(IsCycle(call') /\ Jumps(call'.temperatures, last_temperatures))
         => RejectedCycle]_vars

\* C14: a cycle has just been rejected for a jump of 25 on some device
C14_Witness ==
    /\ IsCycle(call)
    /\ ~call.accepted
    /\ \E d \in Devices :
          /\ call.temperatures[d] = Some(95)
          /\ last_temperatures[d] = Some(70)

\* C15: a cycle whose snapshot has no reading at all invokes no sink, does
\* not call check_thresholds, changes no AlertState, and leaves the polling
\* thread asleep before its next test of the loop
C15_EmptySnapshotRejected ==
    [][(IsCycle(call') /\ \A d \in Devices : call'.temperatures[d] = None)
         => (RejectedCycle /\ threads'[call'.thread] = "sleep")]_vars

\* C15: a cycle has just read a snapshot without any reading
C15_Witness ==
    /\ IsCycle(call)
    /\ \A d \in Devices : call.temperatures[d] = None
    /\ ~call.accepted
    /\ threads[call.thread] = "sleep"

\* C16, as stated: last_temperatures changes only at the end of an accepted
\* cycle, where it becomes that cycle's snapshot
C16_ReferenceOnlyByAcceptedCycle ==
    [][last_temperatures' # last_temperatures
         => (/\ IsCycle(call')
             /\ call'.accepted /\ ~call'.raised
             /\ last_temperatures' = call'.temperatures)]_vars

\* C16, amended: an accepted cycle that runs to its end sets last_temperatures
\* to its snapshot; a rejected cycle and a cycle aborted by an exception leave
\* it unchanged; the only other step that changes it is the read a polling
\* thread makes when it starts
C16_ReferenceByAcceptedCycleOrSeed ==
    [][IF IsCycle(call')
       THEN IF call'.accepted /\ ~call'.raised
            THEN last_temperatures' = call'.temperatures
            ELSE last_temperatures' = last_temperatures
       ELSE last_temperatures' # last_temperatures => call'.op = "thread_init"]_vars

\* C16: a cycle has just been aborted by an exception after validation
\* accepted a snapshot that differs from the reference
C16_Witness ==
    /\ IsCycle(call)
    /\ call.accepted
    /\ call.raised
    /\ last_temperatures # call.temperatures

\* C17: if from some poll on the sensor keeps returning the snapshot of the
\* poll before, with a reading in it, then cycles keep being accepted: the
\* jump filter does not reject that snapshot forever
C17_FilterRecovers ==
    (<>[][IsCycle(call')
            => /\ call'.temperatures = current_temperatures
               /\ \E d \in Devices : call'.temperatures[d] # None]_vars)
      => []<>(IsCycle(call) /\ call.accepted)

\* the messages _check_alerts passes on out of alerts when its sink returns
Passed(alerts) ==
    ForwardAlerts([last_alert_time |-> last_alert_time, config |-> config',
                   forwarded |-> <<>>, raised |-> FALSE],
                  alerts, 1, now, "ok").forwarded

\* C18: in a cycle that validation accepted and whose three sinks all raise,
\* the UI sink is called with the snapshot, check_thresholds is called, the
\* alert sink is called for every message it would get if it returned, the
\* log sink is called with the snapshot, last_temperatures becomes the
\* snapshot, and the thread sleeps before its next test of the loop
C18_RaisingSinksDoNotAbort ==
    [][(/\ IsCycle(call') /\ call'.accepted
        /\ \A sink \in Sinks : callbacks[sink] = "fail"
        /\ custom_alert_actions = <<>>)
         => /\ ~call'.raised
            /\ call'.ui = <<call'.temperatures>>
            /\ call'.checked
            /\ call'.forwarded = Passed(call'.alerts)
            /\ call'.logged = <<call'.temperatures>>
            /\ last_temperatures' = call'.temperatures
            /\ threads'[call'.thread] = "sleep"]_vars

\* C18: a cycle has just called the raising alert sink for two messages and
\* then the raising log sink
C18_Witness ==
    /\ IsCycle(call)
    /\ \A sink \in Sinks : callbacks[sink] = "fail"
    /\ Len(call.forwarded) = 2
    /\ call.ui = <<call.temperatures>>
    /\ call.logged = <<call.temperatures>>
    /\ last_temperatures = call.temperatures

\* C19: a cycle aborted by an exception leaves its polling thread asleep, not
\* ended, and while is_running stays true the thread later starts another cycle
C19_FailingCycleIsFollowed ==
    /\ [][(IsCycle(call') /\ call'.raised)
            => threads'[call'.thread] = "sleep"]_vars
    /\ (IsCycle(call) /\ call.raised)
          ~> (~is_running \/ \E t \in 1..Len(threads) : threads[t] = "cycle")

\* C19: check_thresholds has just raised inside a cycle and the polling
\* thread is in its backoff sleep
C19_Witness ==
    /\ IsCycle(call)
    /\ call.checked
    /\ call.raised
    /\ is_running
    /\ threads[call.thread] = "sleep"

\* C20: get_current_temperatures() returns the snapshot of the most recent
\* cycle that validation accepted, never the snapshot of a rejected cycle
C20_ReturnsAcceptedSnapshot ==
    [][call'.op = "get_current_temperatures"
         => call'.result = accepted_temperatures]_vars

\* some reading of the snapshot is present, and every device with a reading
\* in both snapshots differs by at most 20
NoStrictExcess(current, reference) ==
    /\ \E d \in Devices : current[d] # None
    /\ \A d \in Devices :
          (current[d] # None /\ reference[d] # None)
          => Abs(current[d][1] - reference[d][1]) <= MaxJump

\* C36, as stated: a cycle whose snapshot has a reading and differs by at
\* most 20 from the snapshot of the previous accepted cycle, on every device
\* with a reading in both, is accepted
C36_AcceptedAgainstAccepted ==
    [][(IsCycle(call') /\ NoStrictExcess(call'.temperatures, accepted_temperatures))
         => call'.accepted]_vars

\* C36, amended: a cycle is accepted exactly when its snapshot has a reading
\* and differs by at most 20 from the reference snapshot last_temperatures on
\* every device with a reading in both
C36_AcceptedAgainstReference ==
    [][IsCycle(call')
         => (call'.accepted <=> NoStrictExcess(call'.temperatures, last_temperatures))]_vars

\* C36: a cycle has just been accepted with a reading exactly 20 away from
\* the reference, which an exception later in the cycle has left in place
C36_Witness ==
    /\ IsCycle(call)
    /\ call.accepted
    /\ call.raised
    /\ \E d \in Devices :
          /\ call.temperatures[d] # None
          /\ last_temperatures[d] # None
          /\ Abs(call.temperatures[d][1] - last_temperatures[d][1]) = MaxJump

----------------------------------------------------------------------------
\* Statements about the active flag, over Spec

\* C32 as stated: after a check_thresholds call that processed a reading of
\* a device above its threshold, the device is active
C32_ActiveAfterBreachReading ==
    [][(IsCheck(call') /\ ~call'.raised)
         => \A d \in Devices :
               Above(config, call'.temperatures, d) => alert_states'[d].active]_vars

\* C32: after a check_thresholds call that processed a reading of a device
\* above its threshold, the device is active exactly when the call emitted a
\* breach message for it or it was active before the call; a reading the
\* cooldown gate suppresses leaves the flag as it was
C32_ActiveIffBreachOrWasActive ==
    [][(IsCheck(call') /\ ~call'.raised)
         => \A d \in Devices :
               Above(config, call'.temperatures, d)
               => (alert_states'[d].active
                     <=> (HasMsg(call'.alerts, d, "breach") \/ alert_states[d].active))]_vars

\* C32: a call has just processed a reading above the threshold of a device
\* that has had a breach message before, and the device is not active
C32_Witness ==
    /\ IsCheck(call)
    /\ ~call.raised
    /\ \E d \in Devices :
          /\ Above(config, call.temperatures, d)
          /\ ~alert_states[d].active
          /\ hist[d].breachAt # None
          /\ ~HasMsg(call.alerts, d, "breach")

----------------------------------------------------------------------------
\* Statements about sustained breaches, over SustainedFairSpec

\* a call has processed a reading of the device above its threshold and the
\* cooldown gate has suppressed it
Suppressed(d) ==
    /\ IsCheck(call)
    /\ d \in Reached(call, call.temperatures)
    /\ Above(config, call.temperatures, d)
    /\ ~HasMsg(call.alerts, d, "breach")

\* C33: once a reading of a device above its threshold has been suppressed
\* at a time when the clock can still reach the end of the device's cooldown
\* window, a later call builds a breach message for the device, unless a
\* call comes first in which its reading is absent or not above the threshold
C33_SustainedBreachReported ==
    \A d \in Devices :
       (/\ Suppressed(d)
        /\ alert_states[d].last_triggered + cooldown_period <= MaxTicks * TickSeconds)
       ~> (/\ IsCheck(call)
           /\ \/ HasMsg(call.alerts, d, "breach")
              \/ ~Above(config, call.temperatures, d))

\* C33: a reading above the threshold has just been suppressed inside the
\* cooldown window of an earlier breach of the device, which a recovery or a
\* reset_alert has ended, and the clock can still reach the end of the window
C33_Witness ==
    \E d \in Devices :
       /\ Suppressed(d)
       /\ ~alert_states[d].active
       /\ hist[d].breachAt # None
       /\ now < alert_states[d].last_triggered + cooldown_period
       /\ alert_states[d].last_triggered + cooldown_period <= MaxTicks * TickSeconds

----------------------------------------------------------------------------
\* Statements about what changes an AlertState, over FrameSpec

\* C35: in every step, no device's last_triggered decreases; a device's
\* last_triggered changes only in a check_thresholds call that builds a breach
\* message for the device, and takes the time of that call; a device's active
\* flag changes only in check_thresholds or reset_alert; update_config,
\* set_custom_alert_action, is_alert_active and get_last_alert_time leave
\* alert_states as it was
C35_AlertStateFrame ==
    [][/\ \A d \in Devices :
            /\ alert_states'[d].last_triggered >= alert_states[d].last_triggered
            /\ alert_states'[d].last_triggered # alert_states[d].last_triggered
               => /\ IsCheck(call')
                  /\ HasMsg(call'.alerts, d, "breach")
                  /\ alert_states'[d].last_triggered = now
            /\ alert_states'[d].active # alert_states[d].active
               => call'.op \in {"check_thresholds", "reset_alert"}
       /\ call'.op \in {"update_config", "set_custom_alert_action",
                        "is_alert_active", "get_last_alert_time"}
          => alert_states' = alert_states]_vars

\* C35: a call has just built a breach message for a device and moved its
\* last_triggered from the initial 0 or an earlier time to the time of the
\* call, under a cooldown that update_config has shortened to 150 seconds
C35_Witness ==
    \E d \in Devices :
       /\ IsCheck(call)
       /\ HasMsg(call.alerts, d, "breach")
       /\ alert_states[d].active
       /\ alert_states[d].last_triggered = now
       /\ now > 0
       /\ cooldown_period = 150

----------------------------------------------------------------------------
\* Statements about custom alert actions, over Spec

\* the breach messages of a call for devices that have a registered action
BreachesWithAction(alerts, actions) ==
    SelectSeq(alerts, LAMBDA m : m.kind = "breach" /\ m.device \in DOMAIN actions)

\* C24: the custom actions a check_thresholds call invokes are, in order,
\* one invocation of the registered callback for every breach message of a
\* device that has one, and nothing else: none for a suppressed reading, a
\* recovery or a device without a registration; and a registration for a
\* device replaces the callback registered for it before and no other
C24_ActionOncePerBreach ==
    /\ [][IsCheck(call')
            => LET b == BreachesWithAction(call'.alerts, custom_alert_actions)
               IN call'.invoked =
                    [i \in 1..Len(b) |->
                        <<b[i].device, custom_alert_actions[b[i].device]>>]]_vars
    /\ [][call'.op = "set_custom_alert_action"
            => /\ DOMAIN custom_alert_actions' =
                     DOMAIN custom_alert_actions \cup {call'.device}
               /\ custom_alert_actions'[call'.device] = call'.action
               /\ \A d \in DOMAIN custom_alert_actions \ {call'.device} :
                     custom_alert_actions'[d] = custom_alert_actions[d]]_vars

\* C24: a call has just emitted a breach message for each of two devices
\* and invoked the one registered action once
C24_Witness ==
    /\ IsCheck(call)
    /\ Len(call.invoked) = 1
    /\ Len(call.alerts) = 2
    /\ \A i \in 1..2 : call.alerts[i].kind = "breach"
    /\ call.invoked[1][1] \in DOMAIN custom_alert_actions
    /\ call.invoked[1][2] = custom_alert_actions[call.invoked[1][1]]

----------------------------------------------------------------------------
\* Statements about AlertSystem and the configuration, over SettingsSpec

\* what the configuration holds for a key: its stored value, else the default
Stored(cfg, key) == IF Readable(cfg, key) THEN Parse(cfg[key]) ELSE Defaults[key]

\* C21: every reading of a check_thresholds call is compared with the
\* threshold the configuration holds when the call is made: above it, the
\* reading gives a breach message naming that threshold unless the cooldown
\* gate suppresses it; at or below it, it gives no breach message and leaves
\* the device inactive
C21_ThresholdReadFresh ==
    [][(IsCheck(call') /\ ~call'.raised)
         => \A d \in Devices :
               call'.temperatures[d] # None
               => IF call'.temperatures[d][1] > Stored(config, ThresholdKey(d))
                  THEN \/ \E i \in 1..Len(call'.alerts) :
                             /\ call'.alerts[i].device = d
                             /\ call'.alerts[i].kind = "breach"
                             /\ call'.alerts[i].threshold =
                                   Some(Stored(config, ThresholdKey(d)))
                       \/ /\ InCooldown(now, alert_states[d].last_triggered,
                                        cooldown_period)
                          /\ alert_states'[d] = alert_states[d]
                          /\ CountMsg(call'.alerts, d) = 0
                  ELSE /\ ~HasMsg(call'.alerts, d, "breach")
                       /\ ~alert_states'[d].active]_vars

\* C21: a reading of 70 has just given a breach message against a threshold
\* of 60 that the settings hold instead of the device's default
C21_Witness ==
    /\ IsCheck(call)
    /\ \E i \in 1..Len(call.alerts) :
          /\ call.alerts[i].kind = "breach"
          /\ call.alerts[i].temp = 70
          /\ call.alerts[i].threshold = Some(60)
          /\ Defaults[ThresholdKey(call.alerts[i].device)] # 60

\* C22: cooldown_period changes only in update_config(), which sets it to
\* what the configuration holds and changes no AlertState and no registered
\* action; and a reading above the threshold gives a breach message exactly
\* when the time since last_triggered is not below cooldown_period, whatever
\* cooldown the configuration holds at that call
C22_CooldownCached ==
    /\ [][cooldown_period' # cooldown_period => call'.op = "update_config"]_vars
    /\ [][call'.op = "update_config"
            => /\ cooldown_period' = Stored(config, CooldownKey)
               /\ UNCHANGED <<alert_states, custom_alert_actions>>]_vars
    /\ [][(IsCheck(call') /\ ~call'.raised)
            => \A d \in Devices :
                  Above(config, call'.temperatures, d)
                  => (HasMsg(call'.alerts, d, "breach")
                        <=> ~(now - alert_states[d].last_triggered < cooldown_period))]_vars

\* C22: a breach message has just been emitted at a time at which the
\* cooldown the configuration holds, but update_config() has not fetched,
\* would still suppress it
C22_Witness ==
    /\ IsCheck(call)
    /\ Stored(config, CooldownKey) # cooldown_period
    /\ now < Stored(config, CooldownKey)
    /\ \E d \in Devices : HasMsg(call.alerts, d, "breach")

----------------------------------------------------------------------------
\* Statements about the read accessors, over AccessorSpec

IsAccessor(c) == c.op \in {"is_alert_active", "get_last_alert_time"}

\* C23: a reader that has read active = true from is_alert_active(device)
\* while a breach of that device is being recorded does not then read, from
\* get_last_alert_time(device), the last_triggered the device had before
\* that breach
C23_NoTornRead ==
    (/\ call.op = "get_last_alert_time"
     /\ race.reader # None
     /\ race.writer # None
     /\ race.reader[1].device = call.device
     /\ race.reader[1].active
     /\ race.reader[1].breach = Some(race.writer[1].current_time))
    => call.result # <<race.writer[1].before>>

\* C25: a call of is_alert_active or get_last_alert_time changes nothing the
\* engine owns and does not raise; for a device the engine has no AlertState
\* for it returns false and 0, for the others the device's active flag and
\* last_triggered
C25_AccessorsPure ==
    [][IsAccessor(call')
         => /\ UNCHANGED alertVars
            /\ ~call'.raised
            /\ call'.result =
                 IF call'.device \in DOMAIN alert_states
                 THEN IF call'.op = "is_alert_active"
                      THEN <<alert_states[call'.device].active>>
                      ELSE <<alert_states[call'.device].last_triggered>>
                 ELSE IF call'.op = "is_alert_active" THEN <<FALSE>> ELSE <<0>>]_vars

\* C25: the reader has read both fields of a device whose breach is recorded
C25_Witness ==
    /\ call.op = "get_last_alert_time"
    /\ call.device \in DOMAIN alert_states
    /\ call.result[1] > 0
    /\ race.reader # None
    /\ race.reader[1].device = call.device
    /\ race.reader[1].active
    /\ race.writer = None

----------------------------------------------------------------------------
\* Statements about the sinks of one cycle, over OverlapSpec

SinkRank(sink) == CASE sink = "ui" -> 1 [] sink = "check" -> 2 [] sink = "log" -> 3

\* C26: what a polling thread has invoked in its cycle so far is in the
\* order UI sink, alert check, log sink, and every one of them was given the
\* same snapshot
C26_SinksInOrderSameSnapshot ==
    \A t \in DOMAIN sink_trace :
       \A i, j \in 1..Len(sink_trace[t]) :
          i < j => /\ SinkRank(sink_trace[t][i].sink) < SinkRank(sink_trace[t][j].sink)
                   /\ sink_trace[t][i].snapshot = sink_trace[t][j].snapshot

----------------------------------------------------------------------------
\* Statements about the order of the messages, over ItemsSpec

\* position of a device in the items of a snapshot
PosIn(items, device) == CHOOSE i \in 1..Len(items) : items[i] = device

\* C27: the messages a check_thresholds call returns are in the order in
\* which the snapshot's items come: each message's device comes strictly
\* later in the snapshot than the device of the message before it, so no
\* device has two messages
C27_MessagesInSnapshotOrder ==
    [][(IsCheck(call') /\ ~call'.raised)
         => \A i, j \in 1..Len(call'.alerts) :
               i < j => PosIn(call'.items, call'.alerts[i].device)
                          < PosIn(call'.items, call'.alerts[j].device)]_vars

\* C27: a call has just returned two messages for a snapshot whose items
\* come in the order SSD, GPU, CPU, the first for the device that comes first
\* in the snapshot
C27_Witness ==
    /\ IsCheck(call)
    /\ call.items = <<"SSD", "GPU", "CPU">>
    /\ Len(call.alerts) = 2
    /\ Pos(call.alerts[1].device) > Pos(call.alerts[2].device)

----------------------------------------------------------------------------
\* Statements about the settings, over StoreSpec

\* C28: after monitor.set_update_interval(x) the monitor's update_interval
\* is the larger of 1 and x: 1 for every x below 1, x itself otherwise
C28_IntervalClamped ==
    [][call'.op = "set_update_interval"
         => update_interval'.seconds =
               IF call'.interval.seconds < 1 THEN 1 ELSE call'.interval.seconds]_vars

\* C28: set_update_interval has just been given a value below 1 and the
\* monitor's update_interval is 1
C28_Witness ==
    /\ call.op = "set_update_interval"
    /\ call.interval.seconds < 1
    /\ update_interval.seconds = 1

IsGet(c) ==
    c.op \in {"get_threshold", "get_alert_cooldown", "get_update_interval",
              "get_log_temperatures"}

IsSet(c) ==
    c.op \in {"set_threshold", "set_alert_cooldown", "config.set_update_interval",
              "set_log_temperatures"}

\* C30: a getter called for an option the configuration does not hold (or
\* holds as text that does not parse) stores the default under that option,
\* changes no other option and returns the default; a getter called for an
\* option that is stored returns the stored value and changes nothing; so a
\* get that follows a get of the same option returns the same value and
\* leaves the store alone, and a get that follows a set returns the value set
C30_DefaultSeeding ==
    /\ [][IsGet(call')
            => IF call'.key \in DOMAIN config /\ config[call'.key] # Malformed
               THEN /\ config' = config
                    /\ call'.result = config[call'.key]
               ELSE /\ DOMAIN config' = DOMAIN config \cup {call'.key}
                    /\ config'[call'.key] = <<Defaults[call'.key]>>
                    /\ \A k \in DOMAIN config \ {call'.key} : config'[k] = config[k]
                    /\ call'.result = <<Defaults[call'.key]>>]_vars
    /\ [][(IsGet(call) /\ IsGet(call') /\ call'.key = call.key)
            => (call'.result = call.result /\ config' = config)]_vars
    /\ [][(IsSet(call) /\ IsGet(call') /\ call'.key = call.key)
            => (call'.result = call.value /\ config' = config)]_vars

\* C30: get_update_interval has just returned the default for an option the
\* configuration did not hold, and the configuration now holds it
C30_Witness ==
    /\ call.op = "get_update_interval"
    /\ call.seeded
    /\ call.result = <<Defaults[IntervalKey]>>
    /\ IntervalKey \in DOMAIN config
    /\ config[IntervalKey] = call.result

----------------------------------------------------------------------------
\* Statements about the alert history, over HistorySpec

\* C29: the alert history never holds more than 100 entries, and a
\* check_alerts call leaves in it the entries it held followed by one entry
\* per message of the call, in that order, less as many of the oldest as
\* there are beyond 100
C29_HistoryBounded ==
    /\ [](Len(alert_history) <= 100)
    /\ [][call'.op = "check_alerts"
            => LET all == alert_history \o
                            [i \in 1..Len(call'.alerts) |->
                                [time |-> now, message |-> call'.alerts[i]]]
                   evicted == IF Len(all) > 100 THEN Len(all) - 100 ELSE 0
               IN alert_history' = SubSeq(all, evicted + 1, Len(all))]_vars

\* C29: a check_alerts call has just recorded a message in a history that
\* is full and whose oldest entry is no longer the oldest entry of the
\* history the application started with
C29_Witness ==
    /\ call.op = "check_alerts"
    /\ Len(call.alerts) > 0
    /\ Len(alert_history) = 100
    /\ alert_history[100].message = call.alerts[Len(call.alerts)]
    /\ alert_history[1].time > -100

----------------------------------------------------------------------------
\* Statements about the notifications, over NotifySpec

\* the messages of a sequence
Messages(alerts) == {alerts[i] : i \in 1..Len(alerts)}

\* C37: a check_alerts call records every message of the call in the alert
\* history and delivers, once each, exactly those whose text sent_alerts
\* did not hold, which it adds to sent_alerts; sent_alerts loses a text only
\* in on_settings_saved, through reset_alerts(), which empties it.  So a text
\* is delivered at most once between two reset_alerts() calls.
C37_NotifiedOncePerReset ==
    [][/\ call'.op = "check_alerts"
          => /\ \A m \in Messages(call'.alerts) :
                   /\ \E j \in 1..Len(alert_history') :
                         alert_history'[j] = [time |-> now, message |-> m]
                   /\ m \in Messages(call'.notified) <=> Text(m) \notin sent_alerts
             /\ Messages(call'.notified) \subseteq Messages(call'.alerts)
             /\ Cardinality(Messages(call'.notified)) = Len(call'.notified)
             /\ sent_alerts' = sent_alerts \cup {Text(m) : m \in Messages(call'.alerts)}
       /\ call'.op = "on_settings_saved" => sent_alerts' = {}
       /\ call'.op \notin {"check_alerts", "on_settings_saved"}
          => sent_alerts' = sent_alerts]_vars

\* C37: a check_alerts call has just recorded a breach message in the
\* history, which already held the same text from an earlier call, and has
\* not delivered it
C37_Witness ==
    /\ call.op = "check_alerts"
    /\ \E m \in Messages(call.alerts) :
          /\ m.kind = "breach"
          /\ m \notin Messages(call.notified)
          /\ \E j, k \in 1..Len(alert_history) :
                /\ alert_history[j] = [time |-> now, message |-> m]
                /\ alert_history[k].message = m
                /\ alert_history[k].time < now
                /\ alert_history[k].time >= 0

----------------------------------------------------------------------------
\* Statements about devices the engine was not built for, over ExtendedSpec

\* C31: no check_thresholds call ends with an exception, whatever devices
\* the snapshot carries
C31_NoSnapshotRaises ==
    IsCheck(call) => ~call.raised

=============================================================================
